---- MODULE Spec2Model ----
(***************************************************************************)
(* A model of the TrueKey note detector (src/src/utils/pitchDetection.ts)  *)
(* and of the duration-weighted key scorer (the keyDetection part of       *)
(* src/src/hooks/useAudioCapture.ts).                                      *)
(*                                                                         *)
(* Representation choices:                                                 *)
(*  - time (performance.now()) is counted in ticks of 1/TicksPerMs ms, so  *)
(*    that fractional milliseconds and Math.round are visible;             *)
(*  - a frequency is represented on the logarithmic scale the code maps it *)
(*    to: cents = 100 * (12 * log2(f / 440) + 69), an integer;             *)
(*  - a string is a sequence of one-character strings;                     *)
(*  - an optional value (T | null) is <<>> for null and <<v>> for v.       *)
(***************************************************************************)
EXTENDS Integers, Sequences, FiniteSets, TLC

\* ------------------------------------------------------------------ bounds
\* clock resolution: ticks per millisecond
TicksPerMs == 4
\* the clock stops the exploration after this many milliseconds
MaxTimeMs == 325
MaxTime == MaxTimeMs * TicksPerMs
\* the calls come FrameMs apart, each up to one tick late, and all of them
\* together at most MaxJitter ticks late
MaxJitter == 2

\* ------------------------------------------------------- program constants
NOTE_NAMES ==
    << <<"C">>, <<"C", "#">>, <<"D">>, <<"D", "#">>, <<"E">>, <<"F">>,
       <<"F", "#">>, <<"G">>, <<"G", "#">>, <<"A">>, <<"A", "#">>, <<"B">> >>
\* A4 = MIDI 69; the cents scale is anchored there (A4 = 6900 cents)
A4_MIDI_NUMBER == 69
\* 0.02, in thousandths
RMS_THRESHOLD == 20
STABILITY_THRESHOLD == 3
MIN_NOTE_DURATION_MS == 80
\* 80 Hz = 3948.6 cents and 1100 Hz = 8486.3 cents: the integer cents values
\* inside the 80..1100 Hz band are 3949..8486
FREQ_MIN_CENTS == 3949
FREQ_MAX_CENTS == 8486

Null == <<>>
Some(v) == <<v>>
\* a result that has not been computed yet
Pending == << "pending", "pending" >>

\* ----------------------------------------------------------------- inputs
\* A frame as the detector sees it: a buffer of samples with its RMS
\* (thousandths) and what the YIN estimator answers for it: null, undefined,
\* or a number with a sign and, when positive, a pitch in cents.
Frame(rms, kind, sign, cents) ==
    [buffer |-> "samples", rms |-> rms, kind |-> kind, sign |-> sign, cents |-> cents]

\* A frame whose buffer is "empty" (length 0) or "nan" (holds NaN samples),
\* with what the estimator answers for it; the sum of squares of its samples
\* does not give an RMS.
AnomalousFrame(buffer, kind, sign, cents) ==
    [buffer |-> buffer, rms |-> 0, kind |-> kind, sign |-> sign, cents |-> cents]

SilentFrame == Frame(5, "number", 1, A4_MIDI_NUMBER * 100)
NullFrame == Frame(RMS_THRESHOLD, "null", 0, 0)
UndefinedFrame == Frame(RMS_THRESHOLD, "undefined", 0, 0)
ZeroFrame == Frame(RMS_THRESHOLD, "number", 0, 0)
NegativeFrame == Frame(RMS_THRESHOLD, "number", -1, 0)
\* below 80 Hz and above 1100 Hz
LowFrame == Frame(RMS_THRESHOLD, "number", 1, FREQ_MIN_CENTS - 49)
HighFrame == Frame(RMS_THRESHOLD, "number", 1, FREQ_MAX_CENTS + 14)
\* A4, A4 30 cents sharp, B4
FrameA == Frame(RMS_THRESHOLD, "number", 1, A4_MIDI_NUMBER * 100)
FrameASharpish == Frame(50, "number", 1, A4_MIDI_NUMBER * 100 + 30)
FrameB == Frame(RMS_THRESHOLD, "number", 1, (A4_MIDI_NUMBER + 2) * 100)

\* the estimator is a library: for an anomalous buffer it may answer null,
\* or a number
EmptyFrameNoPitch == AnomalousFrame("empty", "null", 0, 0)
EmptyFramePitched == AnomalousFrame("empty", "number", 1, A4_MIDI_NUMBER * 100)
NaNFrameNoPitch == AnomalousFrame("nan", "null", 0, 0)
NaNFramePitched == AnomalousFrame("nan", "number", 1, A4_MIDI_NUMBER * 100)

AnomalousFrames ==
    { EmptyFrameNoPitch, EmptyFramePitched, NaNFrameNoPitch, NaNFramePitched }

Frames ==
    { SilentFrame, NullFrame, UndefinedFrame, ZeroFrame, NegativeFrame,
      LowFrame, HighFrame, FrameA, FrameASharpish, FrameB }

\* time between two calls: FrameMs, or one tick more
FrameMs == 40
FrameTicks == FrameMs * TicksPerMs
Dts == { FrameTicks, FrameTicks + 1 }
\* time between two performance.now() reads of one call: none, or one tick
Drifts == { 0, 1 }

\* ------------------------------------------------------------------ state
VARIABLES
    lastDetectedNote,      \* candidate note name, or Null
    consecutiveCount,      \* consecutive frames that matched the candidate
    lastStableNote,        \* name of the last note that became stable, or Null
    currentNoteStartTime,  \* Some(start of the open note), or Null
    currentNoteData,       \* Some(PitchResult of the open note), or Null
    onNoteComplete,        \* whether a note-complete callback is registered
    now,                   \* the clock
    delivered,             \* the DetectedNotes the callback has received
    ret,                   \* what the last process() returned
    reads,                 \* the clock values the last call read
    lastOp,                \* the last call
    lastFrame,             \* the frame of the last process(), or Null
    detectPitchCalled,     \* whether the last call asked the estimator
    events,                \* number of note-started events returned so far
    obsName, obsRun, maxRun,          \* observer: runs of equal note names
    strictRun,             \* observer: run of adjacent frames, capped
    sessPure, sessName, sessFrames, sessConfirm, \* observer: one-note session
    inputNotes,            \* the note list given to the key scorer
    keyResult,             \* Pending, or what analyzeKeyWithDuration returned
    keyScores,             \* its scores array when it returned, <<>> if none
    callArgs,              \* the arguments of a call of an exported function
    callResult,            \* Pending, or what that call returned
    startCalls,            \* hook: where each startCapture() call stands
    streams,               \* hook: the MediaStream each call obtained
    contexts,              \* hook: the AudioContext each call created
    detectors,             \* hook: the pitch detector each call created
    loops,                 \* hook: the frame loop each call started
    mediaStreamRef, audioContextRef, analyserNodeRef,  \* hook: refs, 0 is null
    pitchDetectorRef, animationFrameRef,
    silenceTimeoutRef,     \* hook: "none" (null), "pending" or "fired"
    collectedNotesRef,     \* hook: the notes collected for the key analysis
    state,                 \* hook: the React state
    requests,              \* hook: the AI analysis requests issued
    analysed,              \* observer: the last list given to the key analysis
    hookOp                 \* observer: the last step of the hook

detVars ==
    << lastDetectedNote, consecutiveCount, lastStableNote,
       currentNoteStartTime, currentNoteData, onNoteComplete >>
vars ==
    << lastDetectedNote, consecutiveCount, lastStableNote,
       currentNoteStartTime, currentNoteData, onNoteComplete,
       now, delivered, ret, reads, lastOp, lastFrame, detectPitchCalled,
       events, obsName, obsRun, maxRun, strictRun,
       sessPure, sessName, sessFrames, sessConfirm,
       inputNotes, keyResult, keyScores, callArgs, callResult,
       startCalls, streams, contexts, detectors, loops,
       mediaStreamRef, audioContextRef, analyserNodeRef,
       pitchDetectorRef, animationFrameRef, silenceTimeoutRef,
       collectedNotesRef, state, requests, analysed, hookOp >>
keyVars == << inputNotes, keyResult, keyScores >>
callVars == << callArgs, callResult >>
hookVars ==
    << startCalls, streams, contexts, detectors, loops,
       mediaStreamRef, audioContextRef, analyserNodeRef,
       pitchDetectorRef, animationFrameRef, silenceTimeoutRef,
       collectedNotesRef, state, requests, analysed, hookOp >>

\* ------------------------------------------------------------ note mapper
RECURSIVE NatToChars(_)
NatToChars(n) ==
    LET d == << "0", "1", "2", "3", "4", "5", "6", "7", "8", "9" >>
    IN  IF n < 10 THEN << d[n + 1] >>
        ELSE NatToChars(n \div 10) \o << d[(n % 10) + 1] >>

\* `${octave}`
IntToChars(n) == IF n < 0 THEN << "-" >> \o NatToChars(-n) ELSE NatToChars(n)

\* Math.round of c / 100 (halves round up)
RoundedMidi(cents) == (cents + 50) \div 100

\* JavaScript's % truncates toward zero, so it is negative for a negative m
JsMod12(m) == IF m >= 0 THEN m % 12 ELSE -((-m) % 12)

\* mutant: the octave is cut toward zero instead of floored
frequencyToNoteTruncated(freqCents) ==
    LET roundedMidi == RoundedMidi(freqCents)
        cents == freqCents - 100 * roundedMidi
        noteIndex == (JsMod12(roundedMidi) + 12) % 12
        octave == (IF roundedMidi >= 0 THEN roundedMidi \div 12
                                       ELSE -((-roundedMidi) \div 12)) - 1
        note == NOTE_NAMES[noteIndex + 1]
    IN  [ frequency |-> freqCents,
          note |-> note,
          octave |-> octave,
          noteName |-> note \o IntToChars(octave),
          cents |-> cents ]

frequencyToNote(freqCents) ==
    LET roundedMidi == RoundedMidi(freqCents)
        cents == freqCents - 100 * roundedMidi
        noteIndex == (JsMod12(roundedMidi) + 12) % 12
        octave == (roundedMidi \div 12) - 1
        note == NOTE_NAMES[noteIndex + 1]
    IN  [ frequency |-> freqCents,
          note |-> note,
          octave |-> octave,
          noteName |-> note \o IntToChars(octave),
          cents |-> cents ]

\* ---------------------------------------------------------------- detector
\* The detector's closure variables as one record, with what the call being
\* executed has produced so far: notes delivered, clock reads, return value.
Det ==
    [ lastDetectedNote |-> lastDetectedNote,
      consecutiveCount |-> consecutiveCount,
      lastStableNote |-> lastStableNote,
      currentNoteStartTime |-> currentNoteStartTime,
      currentNoteData |-> currentNoteData,
      onNoteComplete |-> onNoteComplete,
      delivered |-> delivered,
      reads |-> <<>>,
      ret |-> Null,
      detectPitchCalled |-> FALSE ]

\* performance.now(): the next value of the clock values clk of this call
PerformanceNow(d, clk) == clk[Len(d.reads) + 1]

\* Math.round of a duration in ticks, in ms
RoundMs(ticks) == (2 * ticks + TicksPerMs) \div (2 * TicksPerMs)

\* mutant: the open note is reported but not closed
finalizeKeepsNote(d, clk) ==
    LET can == /\ d.currentNoteData # Null
               /\ d.currentNoteStartTime # Null
               /\ d.onNoteComplete
        endTime == PerformanceNow(d, clk)
        duration == endTime - d.currentNoteStartTime[1]
        completedNote ==
            [ noteName |-> d.currentNoteData[1].noteName,
              note |-> d.currentNoteData[1].note,
              octave |-> d.currentNoteData[1].octave,
              frequency |-> d.currentNoteData[1].frequency,
              cents |-> d.currentNoteData[1].cents,
              durationMs |-> RoundMs(duration),
              startTime |-> d.currentNoteStartTime[1],
              endTime |-> endTime ]
    IN  [ d EXCEPT
            !.delivered =
                IF can /\ duration >= MIN_NOTE_DURATION_MS * TicksPerMs
                THEN Append(@, completedNote) ELSE @,
            !.reads = IF can THEN Append(@, endTime) ELSE @ ]

\* mutant: the minimum-duration test is missing
finalizeNoMinimum(d, clk) ==
    LET can == /\ d.currentNoteData # Null
               /\ d.currentNoteStartTime # Null
               /\ d.onNoteComplete
        endTime == PerformanceNow(d, clk)
        duration == endTime - d.currentNoteStartTime[1]
        completedNote ==
            [ noteName |-> d.currentNoteData[1].noteName,
              note |-> d.currentNoteData[1].note,
              octave |-> d.currentNoteData[1].octave,
              frequency |-> d.currentNoteData[1].frequency,
              cents |-> d.currentNoteData[1].cents,
              durationMs |-> RoundMs(duration),
              startTime |-> d.currentNoteStartTime[1],
              endTime |-> endTime ]
    IN  [ d EXCEPT
            !.delivered = IF can THEN Append(@, completedNote) ELSE @,
            !.reads = IF can THEN Append(@, endTime) ELSE @,
            !.currentNoteStartTime = Null,
            !.currentNoteData = Null ]

finalizeCurrentNote(d, clk) ==
    LET can == /\ d.currentNoteData # Null
               /\ d.currentNoteStartTime # Null
               /\ d.onNoteComplete
        endTime == PerformanceNow(d, clk)
        duration == endTime - d.currentNoteStartTime[1]
        completedNote ==
            [ noteName |-> d.currentNoteData[1].noteName,
              note |-> d.currentNoteData[1].note,
              octave |-> d.currentNoteData[1].octave,
              frequency |-> d.currentNoteData[1].frequency,
              cents |-> d.currentNoteData[1].cents,
              durationMs |-> RoundMs(duration),
              startTime |-> d.currentNoteStartTime[1],
              endTime |-> endTime ]
    IN  [ d EXCEPT
            !.delivered =
                IF can /\ duration >= MIN_NOTE_DURATION_MS * TicksPerMs
                THEN Append(@, completedNote) ELSE @,
            !.reads = IF can THEN Append(@, endTime) ELSE @,
            !.currentNoteStartTime = Null,
            !.currentNoteData = Null ]

\* Math.sqrt(sum / buffer.length): a number, or NaN when the buffer is
\* empty (0 / 0) or holds a NaN sample
calculateRMS(frame) ==
    IF frame.buffer = "samples"
    THEN [ nan |-> FALSE, value |-> frame.rms ]
    ELSE [ nan |-> TRUE, value |-> 0 ]

\* x < c for a number x that may be NaN: every comparison with NaN is false
JsLess(x, c) == ~x.nan /\ x.value < c

IsSilence(frame) == JsLess(calculateRMS(frame), RMS_THRESHOLD)

NoPitch(frame) ==
    \/ frame.kind = "null"
    \/ frame.kind = "undefined"
    \/ frame.sign <= 0

OutOfRange(frame) ==
    frame.cents < FREQ_MIN_CENTS \/ frame.cents > FREQ_MAX_CENTS

\* mutant: silence and pitch loss forget the candidate but keep its count
LoseNoteKeepsCount(d, clk) ==
    LET d1 == IF d.currentNoteData # Null THEN finalizeCurrentNote(d, clk) ELSE d
    IN  [ d1 EXCEPT !.lastDetectedNote = Null,
                    !.ret = Null ]

\* silence and pitch loss: finalize the open note, clear the candidate
LoseNote(d, clk) ==
    LET d1 == IF d.currentNoteData # Null THEN finalizeCurrentNote(d, clk) ELSE d
    IN  [ d1 EXCEPT !.lastDetectedNote = Null,
                    !.consecutiveCount = 0,
                    !.ret = Null ]

\* mutant: every mapped frame counts, whatever its note name
TrackNoteCountsAny(d, frame, clk) ==
    LET result == frequencyToNote(frame.cents)
        d1 == [ d EXCEPT !.lastDetectedNote = result.noteName,
                         !.consecutiveCount = @ + 1 ]
    IN  IF /\ d1.consecutiveCount >= STABILITY_THRESHOLD
           /\ result.noteName # d1.lastStableNote
        THEN LET d2 == IF d1.currentNoteData # Null
                       THEN finalizeCurrentNote(d1, clk) ELSE d1
                 start == PerformanceNow(d2, clk)
             IN  [ d2 EXCEPT !.lastStableNote = result.noteName,
                             !.currentNoteStartTime = Some(start),
                             !.reads = Append(@, start),
                             !.currentNoteData = Some(result),
                             !.ret = Some(result) ]
        ELSE [ d1 EXCEPT !.ret = Null ]

\* mutant: a stable note is opened again by each further frame of it
TrackNoteReopens(d, frame, clk) ==
    LET result == frequencyToNote(frame.cents)
        d1 == IF result.noteName = d.lastDetectedNote
              THEN [ d EXCEPT !.consecutiveCount = @ + 1 ]
              ELSE [ d EXCEPT !.lastDetectedNote = result.noteName,
                              !.consecutiveCount = 1 ]
    IN  IF d1.consecutiveCount >= STABILITY_THRESHOLD
        THEN LET d2 == IF d1.currentNoteData # Null
                       THEN finalizeCurrentNote(d1, clk) ELSE d1
                 start == PerformanceNow(d2, clk)
             IN  [ d2 EXCEPT !.lastStableNote = result.noteName,
                             !.currentNoteStartTime = Some(start),
                             !.reads = Append(@, start),
                             !.currentNoteData = Some(result),
                             !.ret = Some(result) ]
        ELSE [ d1 EXCEPT !.ret = Null ]

\* mutant: each further frame of the open note returns its event again
TrackNoteRepeatsEvent(d, frame, clk) ==
    LET result == frequencyToNote(frame.cents)
        d1 == IF result.noteName = d.lastDetectedNote
              THEN [ d EXCEPT !.consecutiveCount = @ + 1 ]
              ELSE [ d EXCEPT !.lastDetectedNote = result.noteName,
                              !.consecutiveCount = 1 ]
    IN  IF d1.consecutiveCount >= STABILITY_THRESHOLD
        THEN IF result.noteName # d1.lastStableNote
             THEN LET d2 == IF d1.currentNoteData # Null
                            THEN finalizeCurrentNote(d1, clk) ELSE d1
                      start == PerformanceNow(d2, clk)
                  IN  [ d2 EXCEPT !.lastStableNote = result.noteName,
                                  !.currentNoteStartTime = Some(start),
                                  !.reads = Append(@, start),
                                  !.currentNoteData = Some(result),
                                  !.ret = Some(result) ]
             ELSE [ d1 EXCEPT !.ret = Some(result) ]
        ELSE [ d1 EXCEPT !.ret = Null ]

\* mutant: the new note's start time is read before the old note is finalized
TrackNoteStartsFirst(d, frame, clk) ==
    LET result == frequencyToNote(frame.cents)
        d1 == IF result.noteName = d.lastDetectedNote
              THEN [ d EXCEPT !.consecutiveCount = @ + 1 ]
              ELSE [ d EXCEPT !.lastDetectedNote = result.noteName,
                              !.consecutiveCount = 1 ]
    IN  IF /\ d1.consecutiveCount >= STABILITY_THRESHOLD
           /\ result.noteName # d1.lastStableNote
        THEN LET start == PerformanceNow(d1, clk)
                 read == [ d1 EXCEPT !.reads = Append(@, start) ]
                 d2 == IF d1.currentNoteData # Null
                       THEN finalizeCurrentNote(read, clk) ELSE read
             IN  [ d2 EXCEPT !.lastStableNote = result.noteName,
                             !.currentNoteStartTime = Some(start),
                             !.currentNoteData = Some(result),
                             !.ret = Some(result) ]
        ELSE [ d1 EXCEPT !.ret = Null ]

\* steps 3 and 4 of process(): map to a note, stability check
TrackNote(d, frame, clk) ==
    LET result == frequencyToNote(frame.cents)
        d1 == IF result.noteName = d.lastDetectedNote
              THEN [ d EXCEPT !.consecutiveCount = @ + 1 ]
              ELSE [ d EXCEPT !.lastDetectedNote = result.noteName,
                              !.consecutiveCount = 1 ]
    IN  IF /\ d1.consecutiveCount >= STABILITY_THRESHOLD
           /\ result.noteName # d1.lastStableNote
        THEN LET d2 == IF d1.currentNoteData # Null
                       THEN finalizeCurrentNote(d1, clk) ELSE d1
                 start == PerformanceNow(d2, clk)
             IN  [ d2 EXCEPT !.lastStableNote = result.noteName,
                             !.currentNoteStartTime = Some(start),
                             !.reads = Append(@, start),
                             !.currentNoteData = Some(result),
                             !.ret = Some(result) ]
        ELSE [ d1 EXCEPT !.ret = Null ]

\* mutant: silence clears the candidate and leaves the open note open
processSilenceKeepsNote(d, frame, clk) ==
    IF IsSilence(frame)
    THEN [ d EXCEPT !.lastDetectedNote = Null,
                    !.consecutiveCount = 0,
                    !.ret = Null ]
    ELSE IF NoPitch(frame) THEN LoseNote(d, clk)
    ELSE IF OutOfRange(frame) THEN [ d EXCEPT !.ret = Null ]
    ELSE TrackNote(d, frame, clk)

\* mutant: pitch loss returns early and touches nothing
processPitchLossIgnored(d, frame, clk) ==
    IF IsSilence(frame) THEN LoseNote(d, clk)
    ELSE IF NoPitch(frame) THEN [ d EXCEPT !.ret = Null ]
    ELSE IF OutOfRange(frame) THEN [ d EXCEPT !.ret = Null ]
    ELSE TrackNote(d, frame, clk)

\* mutant: an out-of-range frequency is treated like pitch loss
processOutOfRangeLosesNote(d, frame, clk) ==
    IF IsSilence(frame) THEN LoseNote(d, clk)
    ELSE LET asked == [ d EXCEPT !.detectPitchCalled = TRUE ]
         IN  IF NoPitch(frame) THEN LoseNote(asked, clk)
             ELSE IF OutOfRange(frame) THEN LoseNote(asked, clk)
             ELSE TrackNote(asked, frame, clk)

process(d, frame, clk) ==
    IF IsSilence(frame) THEN LoseNote(d, clk)
    ELSE LET asked == [ d EXCEPT !.detectPitchCalled = TRUE ]
         IN  IF NoPitch(frame) THEN LoseNote(asked, clk)
             ELSE IF OutOfRange(frame) THEN [ asked EXCEPT !.ret = Null ]
             ELSE TrackNote(asked, frame, clk)

setOnNoteComplete(d, callback) == [ d EXCEPT !.onNoteComplete = callback ]

\* mutant: the open note is dropped without being reported
flushDiscards(d, clk) ==
    [ d EXCEPT !.currentNoteStartTime = Null, !.currentNoteData = Null ]

flush(d, clk) ==
    IF d.currentNoteData # Null THEN finalizeCurrentNote(d, clk) ELSE d

\* mutant: the last stable note survives the reset
resetKeepsStable(d, clk) ==
    LET d1 == flush(d, clk)
    IN  [ d1 EXCEPT !.lastDetectedNote = Null,
                    !.consecutiveCount = 0,
                    !.currentNoteStartTime = Null,
                    !.currentNoteData = Null ]

reset(d, clk) ==
    LET d1 == flush(d, clk)
    IN  [ d1 EXCEPT !.lastDetectedNote = Null,
                    !.consecutiveCount = 0,
                    !.lastStableNote = Null,
                    !.currentNoteStartTime = Null,
                    !.currentNoteData = Null ]

\* stopCapture's use of the detector: flush(), then reset()
stopDetector(d, clk) == reset(flush(d, clk), clk)

\* ------------------------------------------------------------- observers
\* Runs of equal note names among the frames that map to a note: a silent or
\* pitch-less frame ends the run, an out-of-range frame has no note name.
\* strictRun counts the most recent frames, adjacent in the order they were
\* passed to process(), that mapped to obsName; any other frame ends it.
ObserveRun(frame) ==
    IF frame.rms < RMS_THRESHOLD \/ frame.kind # "number" \/ frame.sign <= 0
    THEN /\ obsName' = Null
         /\ obsRun' = 0
         /\ maxRun' = maxRun
         /\ strictRun' = 0
    ELSE IF frame.cents < FREQ_MIN_CENTS \/ frame.cents > FREQ_MAX_CENTS
    THEN /\ UNCHANGED << obsName, obsRun, maxRun >>
         /\ strictRun' = 0
    ELSE LET name == frequencyToNote(frame.cents).noteName
             run == IF obsName = name THEN obsRun + 1 ELSE 1
             adjacent == IF strictRun > 0 /\ obsName = name
                         THEN strictRun + 1 ELSE 1
         IN  /\ obsName' = name
             /\ obsRun' = run
             /\ maxRun' = IF run > maxRun THEN run ELSE maxRun
             /\ strictRun' = IF adjacent > STABILITY_THRESHOLD
                             THEN STABILITY_THRESHOLD ELSE adjacent

\* A session of frames that all map to one note name, ended by one flush();
\* sessConfirm is the clock at the end of the call that processed its third
\* frame. The session is running while no flush() has ended it.
SessRunning == sessPure /\ lastOp # "flush"

ObserveSession(frame, t) ==
    LET mapped == /\ frame.rms >= RMS_THRESHOLD
                  /\ frame.kind = "number" /\ frame.sign > 0
                  /\ frame.cents >= FREQ_MIN_CENTS
                  /\ frame.cents <= FREQ_MAX_CENTS
        name == frequencyToNote(frame.cents).noteName
        pure == SessRunning /\ mapped /\ (sessFrames = 0 \/ sessName = name)
    IN  /\ sessPure' = pure
        /\ sessName' = IF pure THEN name ELSE Null
        /\ sessFrames' = IF pure THEN sessFrames + 1 ELSE 0
        /\ sessConfirm' = IF pure /\ sessFrames + 1 = STABILITY_THRESHOLD
                          THEN Some(t)
                          ELSE IF pure THEN sessConfirm ELSE Null

\* ----------------------------------------------------------------- actions
\* how late the clock is against calls exactly FrameMs apart
Jitter(t) == t % FrameTicks

\* the clock may reach t
ClockOk(t) == t <= MaxTime /\ Jitter(t) <= MaxJitter

\* ------------------------------------------------- capture hook, at mount
\* startCapture() calls and AI analysis requests a run may make
MaxStarts == 2
MaxRequests == 2
StartIds == 1..MaxStarts

\* useState's initial value
InitialState ==
    [ isCapturing |-> FALSE,
      error |-> Null,
      currentNote |-> Null,
      detectedNotes |-> <<>>,
      keyResult |-> Null,
      isAnalyzingAI |-> FALSE,
      aiAnalysisResult |-> Null,
      aiAnalysisError |-> Null,
      isRateLimited |-> FALSE ]

\* the hook as mounted: no call made, every ref null
HookInit ==
    /\ startCalls = [ i \in StartIds |-> "idle" ]
    /\ streams = [ i \in StartIds |-> "none" ]
    /\ contexts = [ i \in StartIds |-> "none" ]
    /\ detectors = [ i \in StartIds |-> Null ]
    /\ loops = [ i \in StartIds |-> "none" ]
    /\ mediaStreamRef = 0
    /\ audioContextRef = 0
    /\ analyserNodeRef = 0
    /\ pitchDetectorRef = 0
    /\ animationFrameRef = 0
    /\ silenceTimeoutRef = "none"
    /\ collectedNotesRef = <<>>
    /\ state = InitialState
    /\ requests = <<>>
    /\ analysed = Null
    /\ hookOp = "mount"

DetectorInit ==
    /\ lastDetectedNote = Null
    /\ consecutiveCount = 0
    /\ lastStableNote = Null
    /\ currentNoteStartTime = Null
    /\ currentNoteData = Null
    /\ onNoteComplete = FALSE
    /\ now = 0
    /\ delivered = <<>>
    /\ ret = Null
    /\ reads = <<>>
    /\ lastOp = "create"
    /\ lastFrame = Null
    /\ detectPitchCalled = FALSE
    /\ events = 0
    /\ obsName = Null
    /\ obsRun = 0
    /\ maxRun = 0
    /\ strictRun = 0
    /\ sessPure = TRUE
    /\ sessName = Null
    /\ sessFrames = 0
    /\ sessConfirm = Null

\* no call of an exported function is in flight
NoCall ==
    /\ callArgs = Null
    /\ callResult = Pending

Init ==
    /\ DetectorInit
    /\ HookInit
    /\ inputNotes = <<>>
    /\ keyResult = Pending
    /\ keyScores = <<>>
    /\ NoCall

\* the variables take the values the call left in d; the clock shows the
\* last value read, or the time of the call when it read none
Commit(d, clk) ==
    /\ lastDetectedNote' = d.lastDetectedNote
    /\ consecutiveCount' = d.consecutiveCount
    /\ lastStableNote' = d.lastStableNote
    /\ currentNoteStartTime' = d.currentNoteStartTime
    /\ currentNoteData' = d.currentNoteData
    /\ onNoteComplete' = d.onNoteComplete
    /\ delivered' = d.delivered
    /\ ret' = d.ret
    /\ reads' = d.reads
    /\ detectPitchCalled' = d.detectPitchCalled
    /\ now' = IF d.reads = <<>> THEN clk[1] ELSE d.reads[Len(d.reads)]

\* process() on one of the frames F
ProcessFrom(F) ==
    \E frame \in F, dt \in Dts, drift \in Drifts :
        LET clk == << now + dt, now + dt + drift >>
            d == process(Det, frame, clk)
        IN  /\ ClockOk(now + dt + drift)
            /\ Commit(d, clk)
            /\ UNCHANGED << keyVars, callVars, hookVars >>
            /\ lastOp' = "process"
            /\ lastFrame' = Some(frame)
            /\ events' = IF d.ret # Null THEN events + 1 ELSE events
            /\ ObserveRun(frame)
            /\ ObserveSession(frame, now')

Process == ProcessFrom(Frames)

Flush ==
    \E dt \in Dts :
        LET clk == << now + dt, now + dt >>
            d == flush(Det, clk)
        IN  /\ ClockOk(now + dt)
            /\ Commit(d, clk)
            /\ UNCHANGED << keyVars, callVars, hookVars >>
            /\ lastOp' = "flush"
            /\ lastFrame' = Null
            /\ UNCHANGED << events, obsName, obsRun, maxRun, strictRun,
                            sessName, sessFrames, sessConfirm >>
            /\ sessPure' = SessRunning

Reset ==
    \E dt \in Dts :
        LET clk == << now + dt, now + dt >>
            d == reset(Det, clk)
        IN  /\ ClockOk(now + dt)
            /\ Commit(d, clk)
            /\ UNCHANGED << keyVars, callVars, hookVars >>
            /\ lastOp' = "reset"
            /\ lastFrame' = Null
            /\ UNCHANGED << events, obsName, obsRun, maxRun, strictRun,
                            sessName, sessFrames, sessConfirm >>
            /\ sessPure' = FALSE

StopDetector ==
    \E dt \in Dts :
        LET clk == << now + dt, now + dt >>
            d == stopDetector(Det, clk)
        IN  /\ ClockOk(now + dt)
            /\ Commit(d, clk)
            /\ UNCHANGED << keyVars, callVars, hookVars >>
            /\ lastOp' = "stopCapture"
            /\ lastFrame' = Null
            /\ UNCHANGED << events, obsName, obsRun, maxRun, strictRun,
                            sessName, sessFrames, sessConfirm >>
            /\ sessPure' = FALSE

\* the capture hook registers its handler, once, and never passes null
SetOnNoteComplete ==
    \E callback \in { TRUE } :
        LET d == setOnNoteComplete(Det, callback)
        IN  /\ ~onNoteComplete
            /\ Commit(d, << now, now >>)
            /\ UNCHANGED << keyVars, callVars, hookVars >>
            /\ lastOp' = "setOnNoteComplete"
            /\ lastFrame' = Null
            /\ sessPure' = SessRunning
            /\ UNCHANGED << events, obsName, obsRun, maxRun, strictRun,
                            sessName, sessFrames, sessConfirm >>

Next ==
    \/ Process
    \/ Flush
    \/ Reset
    \/ StopDetector
    \/ SetOnNoteComplete

Spec == Init /\ [][Next]_vars

\* ------------------------------------------- detector, on anomalous frames
GateFrames == { SilentFrame, FrameA } \cup AnomalousFrames

ProcessAnomalous == ProcessFrom(GateFrames)

NextAnomalous ==
    \/ ProcessAnomalous
    \/ SetOnNoteComplete

SpecAnomalous == Init /\ [][NextAnomalous]_vars

\* -------------------------------------------------------------- key scorer
\* All pitch classes in sharp notation (C = 0)
PITCH_CLASSES ==
    << <<"C">>, <<"C", "#">>, <<"D">>, <<"D", "#">>, <<"E">>, <<"F">>,
       <<"F", "#">>, <<"G">>, <<"G", "#">>, <<"A">>, <<"A", "#">>, <<"B">> >>

SCALE_TEMPLATES ==
    [ major |-> << 0, 2, 4, 5, 7, 9, 11 >>,
      minor |-> << 0, 2, 3, 5, 7, 8, 10 >>,
      harmonicMinor |-> << 0, 2, 3, 5, 7, 8, 11 >>,
      dorian |-> << 0, 2, 3, 5, 7, 9, 10 >>,
      mixolydian |-> << 0, 2, 4, 5, 7, 9, 10 >> ]

\* the modes the ranking loop enumerates, in its order
RankedModes == << "major", "minor" >>

FLAT_TO_SHARP(pc) ==
    CASE pc = <<"D", "b">> -> Some(<<"C", "#">>)
      [] pc = <<"E", "b">> -> Some(<<"D", "#">>)
      [] pc = <<"F", "b">> -> Some(<<"E">>)
      [] pc = <<"G", "b">> -> Some(<<"F", "#">>)
      [] pc = <<"A", "b">> -> Some(<<"G", "#">>)
      [] pc = <<"B", "b">> -> Some(<<"A", "#">>)
      [] pc = <<"C", "b">> -> Some(<<"B">>)
      [] OTHER -> Null

\* String.prototype.toUpperCase on one of the letters the pattern admits
ToUpperCase(c) ==
    CASE c = "a" -> "A" [] c = "b" -> "B" [] c = "c" -> "C" [] c = "d" -> "D"
      [] c = "e" -> "E" [] c = "f" -> "F" [] c = "g" -> "G" [] OTHER -> c

SeqRange(q) == { q[i] : i \in 1..Len(q) }

\* note.match(/^([A-Ga-g][#b]?)/): the matched prefix, or Null
MatchPitchPrefix(note) ==
    IF Len(note) = 0 THEN Null
    ELSE IF note[1] \notin { "A", "B", "C", "D", "E", "F", "G",
                             "a", "b", "c", "d", "e", "f", "g" } THEN Null
    ELSE IF Len(note) >= 2 /\ note[2] \in { "#", "b" }
         THEN Some(<< note[1], note[2] >>)
         ELSE Some(<< note[1] >>)

\* mutant: flat spellings are not converted
normalizeKeepsFlats(note) ==
    LET match == MatchPitchPrefix(note)
    IN  IF match = Null THEN Null
        ELSE LET upper == << ToUpperCase(match[1][1]) >> \o Tail(match[1])
             IN  IF upper \in SeqRange(PITCH_CLASSES) THEN Some(upper) ELSE Null

\* Some(pitch class), or Null
normalizeToPitchClass(note) ==
    LET match == MatchPitchPrefix(note)
    IN  IF match = Null THEN Null
        ELSE LET upper == << ToUpperCase(match[1][1]) >> \o Tail(match[1])
                 sharp == IF "b" \in SeqRange(upper) /\ FLAT_TO_SHARP(upper) # Null
                          THEN FLAT_TO_SHARP(upper)[1] ELSE upper
             IN  IF sharp \in SeqRange(PITCH_CLASSES) THEN Some(sharp) ELSE Null

\* PITCH_CLASSES.indexOf: 0-based, -1 when absent
getPitchIndex(pitchClass) ==
    IF \E i \in 1..Len(PITCH_CLASSES) : PITCH_CLASSES[i] = pitchClass
    THEN (CHOOSE i \in 1..Len(PITCH_CLASSES) : PITCH_CLASSES[i] = pitchClass) - 1
    ELSE -1

PitchClassAt(index) == PITCH_CLASSES[(index % 12) + 1]

\* mutant: a root that is not a pitch class is not rejected
getScaleNotesUnguarded(root, mode) ==
    LET rootIndex == getPitchIndex(root)
        intervals == SCALE_TEMPLATES[mode]
    IN  [ i \in 1..Len(intervals) |-> PitchClassAt(rootIndex + intervals[i]) ]

getScaleNotes(root, mode) ==
    LET rootIndex == getPitchIndex(root)
        intervals == SCALE_TEMPLATES[mode]
    IN  IF rootIndex = -1 THEN <<>>
        ELSE [ i \in 1..Len(intervals) |-> PitchClassAt(rootIndex + intervals[i]) ]

getScaleNotesSet(root, mode) ==
    LET rootIndex == getPitchIndex(root)
        intervals == SCALE_TEMPLATES[mode]
    IN  { PitchClassAt(rootIndex + intervals[i]) : i \in 1..Len(intervals) }

getRelativeMinor(majorRoot) == PitchClassAt(getPitchIndex(majorRoot) + 9)

getRelativeMajor(minorRoot) == PitchClassAt(getPitchIndex(minorRoot) + 3)

\* mutant: the relative of a major key is looked for 3 semitones up
areRelativeKeysUpward(key1, key2) ==
    IF key1.mode = key2.mode THEN FALSE
    ELSE getRelativeMajor(key1.key) = key2.key

areRelativeKeys(key1, key2) ==
    IF key1.mode = key2.mode THEN FALSE
    ELSE IF key1.mode = "major"
         THEN getRelativeMinor(key1.key) = key2.key
         ELSE getRelativeMajor(key1.key) = key2.key

\* sum of f[x] over the set S
RECURSIVE SumOver(_, _)
SumOver(f, S) ==
    IF S = {} THEN 0
    ELSE LET x == CHOOSE y \in S : TRUE
         IN  f[x] + SumOver(f, S \ {x})

\* mutant: a name that does not normalize is counted as C
NormalizedNotesDefaultC(notes) ==
    LET kept == [ i \in 1..Len(notes) |->
                    LET pc == normalizeToPitchClass(notes[i].noteName)
                    IN  [ pitchClass |-> IF pc = Null THEN <<"C">> ELSE pc[1],
                          duration |-> notes[i].durationMs ] ]
    IN  kept

\* the notes whose name normalizes, in order, as {pitchClass, duration}
NormalizedNotes(notes) ==
    LET keep(n) == normalizeToPitchClass(n.noteName) # Null
        kept == SelectSeq(notes, keep)
    IN  [ i \in 1..Len(kept) |->
            [ pitchClass |-> normalizeToPitchClass(kept[i].noteName)[1],
              duration |-> kept[i].durationMs ] ]

\* the Map pitch class -> total duration in ms, as a function on its keys
NoteWeights(normalized) ==
    LET keys == { normalized[i].pitchClass : i \in 1..Len(normalized) }
    IN  [ pc \in keys |->
            LET idx == { i \in 1..Len(normalized) : normalized[i].pitchClass = pc }
                dur == [ i \in idx |-> normalized[i].duration ]
            IN  SumOver(dur, idx) ]

TotalDuration(normalized) ==
    LET dur == [ i \in 1..Len(normalized) |-> normalized[i].duration ]
    IN  SumOver(dur, 1..Len(normalized))

InScaleDuration(root, mode, noteWeights) ==
    LET scaleNotes == getScaleNotesSet(root, mode)
    IN  SumOver(noteWeights, DOMAIN noteWeights \cap scaleNotes)

\* mutant: the tonic earns no more than any other note of the scale
scoreKeyTonicUnweighted(root, mode, noteWeights, totalDuration, firstNote, lastNote) ==
    LET scaleNotes == getScaleNotesSet(root, mode)
        rootIndex == getPitchIndex(root)
        fifth == PitchClassAt(rootIndex + 7)
        third == PitchClassAt(rootIndex + (IF mode = "major" THEN 4 ELSE 3))
        leadingTone == PitchClassAt(rootIndex + SCALE_TEMPLATES[mode][7])
        points2 == [ note \in DOMAIN noteWeights |->
                       IF note \in scaleNotes
                       THEN 4 + ( IF note = root THEN 0
                                  ELSE IF note = fifth THEN 6
                                  ELSE IF note = third THEN 4
                                  ELSE IF note = leadingTone THEN 2
                                  ELSE 0 )
                       ELSE -3 ]
        weighted == [ note \in DOMAIN noteWeights |-> noteWeights[note] * points2[note] ]
        bonus == (IF firstNote = Some(root) THEN 2 ELSE 0)
                 + (IF lastNote = Some(root) THEN 3 ELSE 0)
        inScaleDuration == InScaleDuration(root, mode, noteWeights)
        raw == SumOver(weighted, DOMAIN noteWeights) + 2000 * bonus
    IN  IF totalDuration > 0
        THEN [ num |-> raw * (totalDuration + inScaleDuration),
               den |-> 4 * totalDuration * totalDuration ]
        ELSE [ num |-> 0, den |-> 1 ]

\* mutant: the first and the last note earn nothing
scoreKeyWithoutBonus(root, mode, noteWeights, totalDuration, firstNote, lastNote) ==
    LET scaleNotes == getScaleNotesSet(root, mode)
        rootIndex == getPitchIndex(root)
        fifth == PitchClassAt(rootIndex + 7)
        third == PitchClassAt(rootIndex + (IF mode = "major" THEN 4 ELSE 3))
        leadingTone == PitchClassAt(rootIndex + SCALE_TEMPLATES[mode][7])
        points2 == [ note \in DOMAIN noteWeights |->
                       IF note \in scaleNotes
                       THEN 4 + ( IF note = root THEN 10
                                  ELSE IF note = fifth THEN 6
                                  ELSE IF note = third THEN 4
                                  ELSE IF note = leadingTone THEN 2
                                  ELSE 0 )
                       ELSE -3 ]
        weighted == [ note \in DOMAIN noteWeights |-> noteWeights[note] * points2[note] ]
        inScaleDuration == InScaleDuration(root, mode, noteWeights)
        raw == SumOver(weighted, DOMAIN noteWeights)
    IN  IF totalDuration > 0
        THEN [ num |-> raw * (totalDuration + inScaleDuration),
               den |-> 4 * totalDuration * totalDuration ]
        ELSE [ num |-> 0, den |-> 1 ]

\* mutant: a melody that lasts no more than one second scores 0
scoreKeyNeedsOneSecond(root, mode, noteWeights, totalDuration, firstNote, lastNote) ==
    LET scaleNotes == getScaleNotesSet(root, mode)
        rootIndex == getPitchIndex(root)
        fifth == PitchClassAt(rootIndex + 7)
        isMajorMode == mode = "major" \/ mode = "mixolydian"
        third == PitchClassAt(rootIndex + (IF isMajorMode THEN 4 ELSE 3))
        leadingTone == PitchClassAt(rootIndex + SCALE_TEMPLATES[mode][7])
        points2 == [ note \in DOMAIN noteWeights |->
                       IF note \in scaleNotes
                       THEN 4 + ( IF note = root THEN 10
                                  ELSE IF note = fifth THEN 6
                                  ELSE IF note = third THEN 4
                                  ELSE IF note = leadingTone THEN 2
                                  ELSE 0 )
                       ELSE -3 ]
        weighted == [ note \in DOMAIN noteWeights |-> noteWeights[note] * points2[note] ]
        bonus == (IF firstNote = Some(root) THEN 2 ELSE 0)
                 + (IF lastNote = Some(root) THEN 3 ELSE 0)
        inScaleDuration == InScaleDuration(root, mode, noteWeights)
        raw == SumOver(weighted, DOMAIN noteWeights) + 2000 * bonus
    IN  IF totalDuration > 1000
        THEN [ num |-> raw * (totalDuration + inScaleDuration),
               den |-> 4 * totalDuration * totalDuration ]
        ELSE [ num |-> 0, den |-> 1 ]

\* A score is an exact fraction num / den with den > 0: the value of the
\* code's expression over the reals. The double the code holds can differ
\* from it in the last bit. With w = duration /
\* 1000 and t = totalDuration, the code computes
\*   (sum of w * c + bonus) * (0.5 + 0.5 * in / t) / (t / 1000)
\* which is  (sum of duration * 2c + 2000 * bonus) * (t + in) / (4 * t * t).
scoreKeyWithDuration(root, mode, noteWeights, totalDuration, firstNote, lastNote) ==
    LET scaleNotes == getScaleNotesSet(root, mode)
        rootIndex == getPitchIndex(root)
        fifth == PitchClassAt(rootIndex + 7)
        isMajorMode == mode = "major" \/ mode = "mixolydian"
        third == PitchClassAt(rootIndex + (IF isMajorMode THEN 4 ELSE 3))
        leadingTone == PitchClassAt(rootIndex + SCALE_TEMPLATES[mode][7])
        \* twice the points one second of the class earns
        points2 == [ note \in DOMAIN noteWeights |->
                       IF note \in scaleNotes
                       THEN 4 + ( IF note = root THEN 10
                                  ELSE IF note = fifth THEN 6
                                  ELSE IF note = third THEN 4
                                  ELSE IF note = leadingTone THEN 2
                                  ELSE 0 )
                       ELSE -3 ]
        weighted == [ note \in DOMAIN noteWeights |-> noteWeights[note] * points2[note] ]
        bonus == (IF firstNote = Some(root) THEN 2 ELSE 0)
                 + (IF lastNote = Some(root) THEN 3 ELSE 0)
        inScaleDuration == InScaleDuration(root, mode, noteWeights)
        raw == SumOver(weighted, DOMAIN noteWeights) + 2000 * bonus
    IN  IF totalDuration > 0
        THEN [ num |-> raw * (totalDuration + inScaleDuration),
               den |-> 4 * totalDuration * totalDuration ]
        ELSE [ num |-> 0, den |-> 1 ]

\* the fraction of the total duration that lies in the scale, as num / den
calculateScaleFit(root, mode, noteWeights, totalDuration) ==
    IF totalDuration = 0 THEN [ num |-> 0, den |-> 1 ]
    ELSE [ num |-> InScaleDuration(root, mode, noteWeights), den |-> totalDuration ]

\* Math.round(x * 100) / 100 of x = num / den, den > 0, in hundredths: the
\* integer part, two decimal digits by long division, and half rounded up
RoundHundredths(x) ==
    LET tenths == (10 * (x.num % x.den)) \div x.den
        rest1 == (10 * (x.num % x.den)) % x.den
        hundredths == (10 * rest1) \div x.den
        rest2 == (10 * rest1) % x.den
    IN  100 * (x.num \div x.den) + 10 * tenths + hundredths
            + (IF 2 * rest2 >= x.den THEN 1 ELSE 0)

\* a / b < c / d for positive b and d, by comparing the integer parts and
\* then the reciprocals of the fractional parts (no product is formed)
RECURSIVE FracLess(_, _, _, _)
FracLess(a, b, c, d) ==
    IF a \div b # c \div d THEN a \div b < c \div d
    ELSE IF c % d = 0 THEN FALSE
    ELSE IF a % b = 0 THEN TRUE
    ELSE FracLess(d, c % d, b, a % b)

\* a.score > b.score, both with positive denominators
ScoreGreater(a, b) == FracLess(b.score.num, b.score.den, a.score.num, a.score.den)

\* mutant: of two equal scores the later one comes first
RECURSIVE SortByScoreTiesReversed(_)
SortByScoreTiesReversed(scores) ==
    IF Len(scores) <= 1 THEN scores
    ELSE LET rest == SortByScoreTiesReversed(SubSeq(scores, 1, Len(scores) - 1))
             x == scores[Len(scores)]
             ahead == Cardinality({ i \in 1..Len(rest) : ScoreGreater(rest[i], x) })
         IN  SubSeq(rest, 1, ahead) \o << x >> \o SubSeq(rest, ahead + 1, Len(rest))

\* scores.sort((a, b) => b.score - a.score): stable, highest first
RECURSIVE SortByScore(_)
SortByScore(scores) ==
    IF Len(scores) <= 1 THEN scores
    ELSE LET rest == SortByScore(SubSeq(scores, 1, Len(scores) - 1))
             x == scores[Len(scores)]
             \* x goes behind every element that does not score lower
             ahead == Cardinality({ i \in 1..Len(rest) : ~ScoreGreater(x, rest[i]) })
         IN  SubSeq(rest, 1, ahead) \o << x >> \o SubSeq(rest, ahead + 1, Len(rest))

\* the 24 hypotheses in enumeration order, scored
AllScores(noteWeights, totalDuration, firstNote, lastNote) ==
    [ k \in 1..(Len(PITCH_CLASSES) * Len(RankedModes)) |->
        LET root == PITCH_CLASSES[((k - 1) \div Len(RankedModes)) + 1]
            mode == RankedModes[((k - 1) % Len(RankedModes)) + 1]
        IN  [ key |-> root,
              mode |-> mode,
              score |-> scoreKeyWithDuration(root, mode, noteWeights,
                                             totalDuration, firstNote, lastNote) ] ]

KeyDetectionResult(hyp, noteWeights, totalDuration) ==
    [ key |-> hyp.key,
      mode |-> hyp.mode,
      confidence |-> RoundHundredths(
          calculateScaleFit(hyp.key, hyp.mode, noteWeights, totalDuration)),
      score |-> RoundHundredths(hyp.score),
      scaleNotes |-> getScaleNotes(hyp.key, hyp.mode) ]

\* the local array scores once it is sorted; <<>> when the function
\* returns before it is built
SortedScores(notes) ==
    LET normalizedNotes == NormalizedNotes(notes)
        noteWeights == NoteWeights(normalizedNotes)
        totalDuration == TotalDuration(normalizedNotes)
    IN  IF Len(notes) = 0 \/ DOMAIN noteWeights = {} THEN <<>>
        ELSE
        LET firstNote == Some(normalizedNotes[1].pitchClass)
            lastNote == Some(normalizedNotes[Len(normalizedNotes)].pitchClass)
        IN  SortByScore(
                AllScores(noteWeights, totalDuration, firstNote, lastNote))

\* mutant: a close second makes the result ambiguous, relative or not
RankedAnalysisAnySecond(scores, noteWeights, totalDuration) ==
    LET best == scores[1]
        secondBest == scores[2]
    IN  IF best.score.num <= 0 THEN Null
        ELSE
        LET isRelative == areRelativeKeys(best, secondBest)
            ratioAbove(p) ==
                FracLess(p, 100, secondBest.score.num, best.score.num)
        IN  Some([ primary |->
                       KeyDetectionResult(best, noteWeights, totalDuration),
                   alternative |->
                       IF isRelative /\ ratioAbove(70)
                       THEN Some(KeyDetectionResult(secondBest, noteWeights,
                                                    totalDuration))
                       ELSE Null,
                   isAmbiguous |-> ratioAbove(85) ])

\* steps 3 to 5, on the sorted scores: Some(KeyAnalysisResult), or Null
RankedAnalysis(scores, noteWeights, totalDuration) ==
    LET best == scores[1]
        secondBest == scores[2]
    IN  IF best.score.num <= 0 THEN Null
        ELSE
        LET isRelative == areRelativeKeys(best, secondBest)
            \* secondBest.score / best.score > p / 100; best.score > 0,
            \* and the two scores have the same denominator
            ratioAbove(p) ==
                FracLess(p, 100, secondBest.score.num, best.score.num)
        IN  Some([ primary |->
                       KeyDetectionResult(best, noteWeights, totalDuration),
                   alternative |->
                       IF isRelative /\ ratioAbove(70)
                       THEN Some(KeyDetectionResult(secondBest, noteWeights,
                                                    totalDuration))
                       ELSE Null,
                   isAmbiguous |-> isRelative /\ ratioAbove(85) ])

\* Some(KeyAnalysisResult), or Null. The sorted scores and the weights are
\* bound by a quantifier so that they are computed once.
analyzeKeyWithDuration(notes) ==
    IF Len(notes) = 0 THEN Null
    ELSE
    LET normalizedNotes == NormalizedNotes(notes)
    IN  IF DOMAIN NoteWeights(normalizedNotes) = {} THEN Null
        ELSE CHOOSE result \in
                 { RankedAnalysis(scores, noteWeights, totalDuration) :
                       scores \in { SortedScores(notes) },
                       noteWeights \in { NoteWeights(normalizedNotes) },
                       totalDuration \in { TotalDuration(normalizedNotes) } } : TRUE

\* ------------------------------------------------- key scorer, on its own
\* bound on the length of the note lists analysed
MaxNotes == 2

NoteNameInputs ==
    { <<"A", "4">>, <<"C", "#", "5">>, <<"D", "b", "3">>, <<"e", "2">>,
      <<"H", "4">>, <<"E", "#", "4">>, <<>> }

DurationInputs == { 0, 100, 300 }

NoteInputs ==
    { [ noteName |-> n, durationMs |-> d ] : n \in NoteNameInputs, d \in DurationInputs }

NoteLists == UNION { [ 1..n -> NoteInputs ] : n \in 0..MaxNotes }

\* the rest of the state, which the key scorer does not touch
nonKeyVars ==
    << lastDetectedNote, consecutiveCount, lastStableNote,
       currentNoteStartTime, currentNoteData, onNoteComplete,
       now, delivered, ret, reads, lastOp, lastFrame, detectPitchCalled,
       events, obsName, obsRun, maxRun, strictRun,
       sessPure, sessName, sessFrames, sessConfirm,
       callArgs, callResult, hookVars >>

InitKey ==
    /\ DetectorInit
    /\ HookInit
    /\ inputNotes \in NoteLists
    /\ keyResult = Pending
    /\ keyScores = <<>>
    /\ NoCall

AnalyzeKey ==
    /\ keyResult = Pending
    /\ keyResult' = analyzeKeyWithDuration(inputNotes)
    /\ keyScores' = SortedScores(inputNotes)
    /\ UNCHANGED inputNotes
    /\ UNCHANGED nonKeyVars

NextKey == AnalyzeKey

SpecKey == InitKey /\ [][NextKey]_vars

\* --------------------------------------- key scorer, on C major scales
\* the scale up or down between two Cs; the two Cs are short or long, one
\* of the other six notes may be long
CMajorMiddle == << <<"D", "4">>, <<"E", "4">>, <<"F", "4">>, <<"G", "4">>,
                   <<"A", "4">>, <<"B", "4">> >>

TonicDurations == { 100, 1200 }
PassingDuration == 100
HeavyDurations == { 1000, 2300 }

\* heavy = 0: no note of the middle is long
CMajorScaleList(first, last, heavy, heavyMs, upward) ==
    LET middle == [ i \in 1..6 |->
                      LET k == IF upward THEN i ELSE 7 - i
                      IN  [ noteName |-> CMajorMiddle[k],
                            durationMs |-> IF k = heavy THEN heavyMs
                                           ELSE PassingDuration ] ]
    IN  << [ noteName |-> <<"C", "4">>, durationMs |-> first ] >>
            \o middle
            \o << [ noteName |-> <<"C", "5">>, durationMs |-> last ] >>

CMajorScaleLists ==
    { CMajorScaleList(first, last, heavy, heavyMs, upward) :
          first \in TonicDurations, last \in TonicDurations,
          heavy \in 0..6, heavyMs \in HeavyDurations, upward \in BOOLEAN }

InitCMajor ==
    /\ DetectorInit
    /\ HookInit
    /\ inputNotes \in CMajorScaleLists
    /\ keyResult = Pending
    /\ keyScores = <<>>
    /\ NoCall

NextCMajor == AnalyzeKey

SpecCMajor == InitCMajor /\ [][NextCMajor]_vars

\* ------------------------------------------------ getScaleNotes, on its own
\* the rest of the state, which a call of an exported function leaves alone
nonCallVars ==
    << lastDetectedNote, consecutiveCount, lastStableNote,
       currentNoteStartTime, currentNoteData, onNoteComplete,
       now, delivered, ret, reads, lastOp, lastFrame, detectPitchCalled,
       events, obsName, obsRun, maxRun, strictRun,
       sessPure, sessName, sessFrames, sessConfirm,
       inputNotes, keyResult, keyScores, hookVars >>

\* roots: the 12 pitch classes, and strings that are none of them
ScaleRootInputs ==
    SeqRange(PITCH_CLASSES)
        \cup { <<"D", "b">>, <<"c">>, <<"C", "4">>, <<"H">>, <<>> }

InitScale ==
    /\ DetectorInit
    /\ HookInit
    /\ inputNotes = <<>>
    /\ keyResult = Pending
    /\ keyScores = <<>>
    /\ callArgs \in { Some([ root |-> r, mode |-> m ]) :
                          r \in ScaleRootInputs, m \in DOMAIN SCALE_TEMPLATES }
    /\ callResult = Pending

GetScaleNotes ==
    /\ callResult = Pending
    /\ callResult' = Some(getScaleNotes(callArgs[1].root, callArgs[1].mode))
    /\ UNCHANGED callArgs
    /\ UNCHANGED nonCallVars

NextScale == GetScaleNotes

SpecScale == InitScale /\ [][NextScale]_vars

\* ---------------------------------------------- frequencyToNote, on its own
\* the rounded MIDI numbers tried go from -MidiBelowZero up to MidiAboveZero
MidiBelowZero == 14
MidiAboveZero == 72

\* where in the semitone the frequency lies, in cents from its centre
CentsOffsets == { -50, 0, 49 }

\* the call is made for a frequency and for the one a semitone above it
InitNote ==
    /\ DetectorInit
    /\ HookInit
    /\ inputNotes = <<>>
    /\ keyResult = Pending
    /\ keyScores = <<>>
    /\ callArgs \in { Some([ midi |-> m, offset |-> o ]) :
                          m \in (-MidiBelowZero)..MidiAboveZero, o \in CentsOffsets }
    /\ callResult = Pending

FrequencyToNote ==
    LET freqCents == 100 * callArgs[1].midi + callArgs[1].offset
    IN  /\ callResult = Pending
        /\ callResult' = Some(<< frequencyToNote(freqCents),
                                  frequencyToNote(freqCents + 100) >>)
        /\ UNCHANGED callArgs
        /\ UNCHANGED nonCallVars

NextNote == FrequencyToNote

SpecNote == InitNote /\ [][NextNote]_vars

\* ------------------------------------------- key scorer, on short melodies
\* bound on the length of the melodies analysed
MaxMelody == 3

MelodyNames ==
    { <<"A", "4">>, <<"C", "4">>, <<"C", "#", "5">> }

MelodyDurations == { 100, 300 }

MelodyNotes ==
    { [ noteName |-> n, durationMs |-> d ] : n \in MelodyNames, d \in MelodyDurations }

Melodies == UNION { [ 1..n -> MelodyNotes ] : n \in 1..MaxMelody }

InitMelody ==
    /\ DetectorInit
    /\ HookInit
    /\ inputNotes \in Melodies
    /\ keyResult = Pending
    /\ keyScores = <<>>
    /\ NoCall

NextMelody == AnalyzeKey

SpecMelody == InitMelody /\ [][NextMelody]_vars

\* ------------------------------------------------------------------ claims
Open == currentNoteData # Null

MinTicks == MIN_NOTE_DURATION_MS * TicksPerMs

Abs(x) == IF x < 0 THEN -x ELSE x

\* n is the DetectedNote of the note with PitchResult data, open from start
\* to end: its duration is end - start to the nearest millisecond
IsNoteOf(n, data, start, end) ==
    /\ n.noteName = data.noteName
    /\ n.note = data.note
    /\ n.octave = data.octave
    /\ n.frequency = data.frequency
    /\ n.cents = data.cents
    /\ n.startTime = start
    /\ n.endTime = end
    /\ 2 * Abs(n.durationMs * TicksPerMs - (end - start)) <= TicksPerMs

\* this step hands the callback exactly one note, the open one, ended at end
DeliversOpenNote(end) ==
    /\ Len(delivered') = Len(delivered) + 1
    /\ SubSeq(delivered', 1, Len(delivered)) = delivered
    /\ IsNoteOf(delivered'[Len(delivered')], currentNoteData[1],
                currentNoteStartTime[1], end)

\* this step finalizes the open note at time end under the minimum-duration
\* rule: delivered when it lasted MIN_NOTE_DURATION_MS, dropped otherwise
FinalizesOpenNote(end) ==
    IF end - currentNoteStartTime[1] >= MinTicks
    THEN DeliversOpenNote(end)
    ELSE delivered' = delivered

\* this step leaves the detector Idle as silence does: no note open, no
\* candidate, no event
LeavesIdle ==
    /\ currentNoteData' = Null
    /\ currentNoteStartTime' = Null
    /\ lastDetectedNote' = Null
    /\ consecutiveCount' = 0
    /\ ret' = Null

LastDelivered == delivered[Len(delivered)]

\* C1: whenever process() brings the consecutive counter to the stability
\* threshold while no note is open, it opens a new Stable note starting now
\* and returns a note-started event, whatever the candidate's name is.
C1_OpensWheneverStable ==
    [][ ( /\ lastOp' = "process"
          /\ consecutiveCount = STABILITY_THRESHOLD - 1
          /\ consecutiveCount' = STABILITY_THRESHOLD
          /\ ~Open )
        => ( /\ currentNoteData' # Null
             /\ currentNoteStartTime' = Some(now')
             /\ ret' # Null ) ]_vars

\* C2: a silent frame while a Stable note is open finalizes that note in the
\* same call (delivered with duration now - start when that is at least
\* 80 ms, dropped otherwise), leaves no note open, clears the candidate and
\* the counter and returns no event.
C2_SilenceFinalizes ==
    [][ ( /\ lastOp' = "process"
          /\ lastFrame'[1].rms < RMS_THRESHOLD
          /\ Open
          /\ onNoteComplete )
        => ( FinalizesOpenNote(now') /\ LeavesIdle ) ]_vars

C2_Witness ==
    /\ lastOp = "process"
    /\ lastFrame = Some(SilentFrame)
    /\ delivered # <<>>
    /\ LastDelivered.endTime = now
    /\ ~Open

\* a frame that is not silent and for which the estimator has no pitch
PitchLess(frame) ==
    /\ frame.rms >= RMS_THRESHOLD
    /\ \/ frame.kind \in { "null", "undefined" }
       \/ frame.kind = "number" /\ frame.sign \in { 0, -1 }

\* C3: a non-silent frame for which the estimator reports no pitch (null,
\* undefined, zero or negative) is handled like a silent one: an open note
\* is finalized under the minimum-duration rule, the candidate and the
\* counter are cleared, no event is returned.
C3_PitchLossLikeSilence ==
    [][ ( /\ lastOp' = "process"
          /\ PitchLess(lastFrame'[1])
          /\ onNoteComplete )
        => ( /\ IF Open THEN FinalizesOpenNote(now')
                        ELSE delivered' = delivered
             /\ LeavesIdle
             /\ lastStableNote' = lastStableNote ) ]_vars

C3_Witness ==
    /\ lastOp = "process"
    /\ lastFrame \in { Some(NullFrame), Some(UndefinedFrame),
                       Some(ZeroFrame), Some(NegativeFrame) }
    /\ delivered # <<>>
    /\ LastDelivered.endTime = now
    /\ ~Open

\* this step ends the note that is open before it
ClosesOpenNote ==
    /\ Open
    /\ \/ currentNoteData' = Null
       \/ currentNoteStartTime' # currentNoteStartTime

\* C4: the callback is invoked exactly once for each opened Stable note that
\* lasted at least 80 ms and never twice for one opened note: a step
\* delivers a note exactly when it closes the open note after 80 ms or more,
\* and delivers that note alone; flush() followed by reset() delivers the
\* last note once.
C4_DeliveredOncePerNote ==
    /\ [][ onNoteComplete =>
             IF ClosesOpenNote /\ reads' # <<>>
             THEN FinalizesOpenNote(reads'[1])
             ELSE delivered' = delivered /\ ~ClosesOpenNote ]_vars
    /\ [](\A i, j \in 1..Len(delivered) :
             i # j => delivered[i].startTime # delivered[j].startTime)

C4_Witness ==
    /\ lastOp = "stopCapture"
    /\ Len(delivered) = 1
    /\ LastDelivered.endTime = now

\* C5: flush() with a Stable note open finalizes it under the minimum-
\* duration rule and leaves no note open; flush() with no note open delivers
\* nothing and changes no detector state.
C5_Flush ==
    [][ ( lastOp' = "flush" /\ onNoteComplete )
        => IF Open
           THEN /\ FinalizesOpenNote(now')
                /\ currentNoteData' = Null
                /\ currentNoteStartTime' = Null
           ELSE /\ delivered' = delivered
                /\ UNCHANGED detVars ]_vars

C5_Witness ==
    /\ lastOp = "flush"
    /\ delivered # <<>>
    /\ LastDelivered.endTime = now
    /\ ~Open

\* C6: reset() flushes the open note and then leaves the detector in the
\* state of a freshly created one with the same callback: candidate,
\* counter, last stable note, open-note data and start time are cleared.
C6_Reset ==
    [][ ( lastOp' = "reset" /\ onNoteComplete )
        => ( /\ IF Open THEN FinalizesOpenNote(now')
                        ELSE delivered' = delivered
             /\ lastDetectedNote' = Null
             /\ consecutiveCount' = 0
             /\ lastStableNote' = Null
             /\ currentNoteStartTime' = Null
             /\ currentNoteData' = Null
             /\ onNoteComplete' = onNoteComplete ) ]_vars

C6_Witness ==
    /\ lastOp = "reset"
    /\ delivered # <<>>
    /\ LastDelivered.endTime = now
    /\ lastStableNote = Null

C8_SingleNoteSession ==
    ( /\ lastOp = "flush"
      /\ onNoteComplete
      /\ sessPure
      /\ sessFrames >= STABILITY_THRESHOLD
      /\ now - sessConfirm[1] >= MinTicks )
    => ( /\ Len(delivered) = 1
         /\ delivered[1].noteName = sessName
         /\ delivered[1].startTime = sessConfirm[1]
         /\ delivered[1].endTime = now
         /\ 2 * Abs(delivered[1].durationMs * TicksPerMs
                    - (now - sessConfirm[1])) <= TicksPerMs )

C8_Witness ==
    /\ lastOp = "flush"
    /\ onNoteComplete
    /\ sessPure
    /\ sessFrames > STABILITY_THRESHOLD
    /\ Len(delivered) = 1
    /\ delivered[1].durationMs > MIN_NOTE_DURATION_MS

\* C9: every DetectedNote the callback has received, whichever path
\* finalized it, has endTime - startTime >= 80 ms and a durationMs equal to
\* that difference rounded to the nearest integer.
C9_DeliveredDurations ==
    \A i \in 1..Len(delivered) :
        /\ delivered[i].endTime - delivered[i].startTime >= MinTicks
        /\ 2 * Abs(delivered[i].durationMs * TicksPerMs
                   - (delivered[i].endTime - delivered[i].startTime))
               <= TicksPerMs

C9_Witness ==
    /\ Len(delivered) = 2
    /\ delivered[1].endTime - delivered[1].startTime > MinTicks
    /\ delivered[2].endTime - delivered[2].startTime = MinTicks

\* the spellings of the 12 pitch classes: sharps, and the flats that stand
\* for them
SharpAndFlatNames ==
    SeqRange(PITCH_CLASSES)
        \cup { <<"D", "b">>, <<"E", "b">>, <<"F", "b">>, <<"G", "b">>,
               <<"A", "b">>, <<"B", "b">>, <<"C", "b">> }

\* the name starts with a pitch-class spelling (first letter in either case),
\* and a one-letter spelling is not followed by an accidental
NamesAPitchClass(name) ==
    \E pc \in SharpAndFlatNames :
        /\ Len(name) >= Len(pc)
        /\ ToUpperCase(name[1]) = pc[1]
        /\ IF Len(pc) = 2 THEN name[2] = pc[2]
           ELSE Len(name) = 1 \/ name[2] \notin { "#", "b" }

NoNameRecognised ==
    \A i \in 1..Len(inputNotes) : ~NamesAPitchClass(inputNotes[i].noteName)

\* C10: analyzeKeyWithDuration returns no result when the note list is empty
\* and when no note in it has a name that normalizes to one of the 12 pitch
\* classes (evaluating it raises no error in either case).
C10_NoResultWithoutPitchClasses ==
    ( keyResult # Pending /\ NoNameRecognised ) => keyResult = Null

C10_Witness ==
    /\ keyResult = Null
    /\ Len(inputNotes) = 2
    /\ NoNameRecognised
    /\ inputNotes[1].noteName = <<"E", "#", "4">>
    /\ inputNotes[1].durationMs > 0
    /\ inputNotes[2].durationMs > 0

\* ---------------------------------------------------------------- C11
\* the semitone number of a pitch class, C = 0
Semitone(pc) == CHOOSE i \in 0..11 : PITCH_CLASSES[i + 1] = pc

\* semitones from the tonic up to the pitch class
IntervalAbove(tonic, pc) == (Semitone(pc) - Semitone(tonic)) % 12

MajorIntervals == { 0, 2, 4, 5, 7, 9, 11 }
MinorIntervals == { 0, 2, 3, 5, 7, 8, 10 }
IntervalsOf(mode) == IF mode = "major" THEN MajorIntervals ELSE MinorIntervals

\* twice the points the reference formula gives one second of a class that
\* lies the interval above the tonic: each term is added on its own
ReferencePoints2(interval, mode) ==
    IF interval \in IntervalsOf(mode)
    THEN 4 + (IF interval = 0 THEN 10 ELSE 0)
           + (IF interval = 7 THEN 6 ELSE 0)
           + (IF interval = (IF mode = "major" THEN 4 ELSE 3) THEN 4 ELSE 0)
           + (IF interval = (IF mode = "major" THEN 11 ELSE 10) THEN 2 ELSE 0)
    ELSE -3

\* the pitch classes and durations of the analysed list, in order
AnalysedNotes == NormalizedNotes(inputNotes)

\* the sum of the durations of a list of normalized notes
DurationOf(an) ==
    LET dur == [ i \in 1..Len(an) |-> an[i].duration ]
    IN  SumOver(dur, 1..Len(an))

AnalysedTotal == DurationOf(AnalysedNotes)

\* the reference formula, note by note, on the normalized notes an: with
\* durations in ms it is
\*   (sum of duration * points2 + 2000 * bonus) * (total + inScale)
\*   / (4 * total * total)
ReferenceScore(tonic, mode, an) ==
    LET n == Len(an)
        interval(i) == IntervalAbove(tonic, an[i].pitchClass)
        points == [ i \in 1..n |->
                      an[i].duration * ReferencePoints2(interval(i), mode) ]
        inScale == [ i \in 1..n |->
                       IF interval(i) \in IntervalsOf(mode)
                       THEN an[i].duration ELSE 0 ]
        bonus == (IF interval(1) = 0 THEN 2 ELSE 0) + (IF interval(n) = 0 THEN 3 ELSE 0)
    IN  [ num |-> (SumOver(points, 1..n) + 2000 * bonus)
                    * (DurationOf(an) + SumOver(inScale, 1..n)),
          den |-> 4 * DurationOf(an) * DurationOf(an) ]

FracEq(x, y) ==
    /\ ~FracLess(x.num, x.den, y.num, y.den)
    /\ ~FracLess(y.num, y.den, x.num, x.den)

\* C11: for every tonic and each of the modes major and minor, the score
\* scoreKeyWithDuration computes for a duration map with a positive total
\* equals the reference formula (2w in scale, +5w tonic, +3w fifth, +2w
\* third, +1w seventh degree, -1.5w out of scale, +2 first note on the
\* tonic, +3 last note on the tonic, times 0.5 + 0.5 * scaleFitRatio,
\* divided by the total duration in seconds).
C11_ScoreFormula ==
    (keyResult # Pending /\ AnalysedTotal > 0)
    => /\ \A tonic \in SeqRange(PITCH_CLASSES), mode \in { "major", "minor" } :
             \E i \in 1..Len(keyScores) :
                 keyScores[i].key = tonic /\ keyScores[i].mode = mode
       /\ \A an \in { AnalysedNotes } : \A i \in 1..Len(keyScores) :
             FracEq(keyScores[i].score,
                    ReferenceScore(keyScores[i].key, keyScores[i].mode, an))

\* a melody of three different classes that starts and ends on one of them
\* has been scored
C11_Witness ==
    /\ keyResult # Pending
    /\ Len(AnalysedNotes) = 3
    /\ AnalysedNotes[1].pitchClass = AnalysedNotes[3].pitchClass
    /\ AnalysedNotes[1].pitchClass # AnalysedNotes[2].pitchClass
    /\ Len(keyScores) = 24

\* ---------------------------------------------------------------- C12
\* C12: the confidence reported for the primary key is strictly less than
\* 1.0 (100 hundredths) for every note list, also when every note lies in
\* the winning scale.
C12_ConfidenceBelowOne ==
    (keyResult # Pending /\ keyResult # Null)
    => keyResult[1].primary.confidence < 100

\* ---------------------------------------------------------------- C13
\* an analysis has returned a result
HasResult == keyResult # Pending /\ keyResult # Null

\* the two keys are relative: one major, one minor, the minor tonic 3
\* semitones below the major tonic
RelativePair(h1, h2) ==
    /\ h1.mode # h2.mode
    /\ LET major == IF h1.mode = "major" THEN h1 ELSE h2
           minor == IF h1.mode = "major" THEN h2 ELSE h1
       IN  Semitone(minor.key) = (Semitone(major.key) - 3) % 12

\* the second-ranked score is more than p percent of the first-ranked one,
\* which is positive; all scores of one analysis have the same denominator
SecondAbovePercent(p) ==
    /\ keyScores[1].score.den = keyScores[2].score.den
    /\ FracLess(p, 100, keyScores[2].score.num, keyScores[1].score.num)

\* the share of the analysed duration that lies in the scale, in hundredths
ReferenceFit(tonic, mode, an) ==
    LET n == Len(an)
        inScale == [ i \in 1..n |->
                       IF IntervalAbove(tonic, an[i].pitchClass) \in IntervalsOf(mode)
                       THEN an[i].duration ELSE 0 ]
    IN  RoundHundredths([ num |-> SumOver(inScale, 1..n), den |-> DurationOf(an) ])

\* C13: alternative is non-null exactly when the second-ranked hypothesis
\* is the relative major/minor of the primary and its score is above 70% of
\* the primary's; it is then that second-ranked key, with its own scale fit
\* as confidence, so a relative key ranked third or lower is never reported.
C13_Alternative ==
    HasResult =>
        LET result == keyResult[1]
        IN  /\ result.primary.key = keyScores[1].key
            /\ result.primary.mode = keyScores[1].mode
            /\ (result.alternative # Null)
                   <=> (RelativePair(keyScores[1], keyScores[2])
                            /\ SecondAbovePercent(70))
            /\ result.alternative # Null
                   => /\ result.alternative[1].key = keyScores[2].key
                      /\ result.alternative[1].mode = keyScores[2].mode
                      /\ result.alternative[1].confidence
                             = ReferenceFit(keyScores[2].key, keyScores[2].mode,
                                            AnalysedNotes)

\* a major primary with its relative minor reported as alternative, the
\* second score between 70% and 85% of the first
C13_Witness ==
    /\ HasResult
    /\ keyResult[1].primary.mode = "major"
    /\ keyResult[1].alternative # Null
    /\ ~SecondAbovePercent(85)

\* ---------------------------------------------------------------- C14
\* C14: isAmbiguous is true exactly when the second-ranked hypothesis is
\* the relative key of the primary and its score exceeds 85% of the
\* primary's; isAmbiguous = true always comes with a non-null alternative.
C14_Ambiguous ==
    HasResult =>
        /\ keyResult[1].isAmbiguous
               <=> (RelativePair(keyScores[1], keyScores[2])
                        /\ SecondAbovePercent(85))
        /\ keyResult[1].isAmbiguous => keyResult[1].alternative # Null

C14_Witness ==
    /\ HasResult
    /\ keyResult[1].isAmbiguous
    /\ keyResult[1].alternative # Null

\* ---------------------------------------------------------------- C15
\* the place of a hypothesis in the enumeration: tonics C, C#, ..., B, for
\* each tonic major before minor
EnumerationIndex(h) == 2 * Semitone(h.key) + (IF h.mode = "major" THEN 0 ELSE 1)

SameScore(h1, h2) == FracEq(h1.score, h2.score)

\* the hypotheses that share the highest score
TopHypotheses ==
    { i \in 1..Len(keyScores) :
        \A j \in 1..Len(keyScores) : ~ScoreGreater(keyScores[j], keyScores[i]) }

\* C15: when several hypotheses share the highest score the primary is the
\* one that comes first in the enumeration order, and the second-ranked
\* hypothesis is the next one in that order among them.
C15_TieBreak ==
    (HasResult /\ Cardinality(TopHypotheses) >= 2)
    => /\ { 1, 2 } \subseteq TopHypotheses
       /\ \A i \in TopHypotheses \ { 1 } :
             EnumerationIndex(keyScores[1]) < EnumerationIndex(keyScores[i])
       /\ \A i \in TopHypotheses \ { 1, 2 } :
             EnumerationIndex(keyScores[2]) < EnumerationIndex(keyScores[i])
       /\ keyResult[1].primary.key = keyScores[1].key
       /\ keyResult[1].primary.mode = keyScores[1].mode

\* two hypotheses share the highest score, and the later of them in the
\* enumeration is not the last of all hypotheses
C15_Witness ==
    /\ HasResult
    /\ Cardinality(TopHypotheses) = 2
    /\ EnumerationIndex(keyScores[2]) < 23

\* ---------------------------------------------------------------- C16
\* C16: for each of the 12 tonics and each mode template getScaleNotes
\* returns exactly seven pairwise distinct pitch classes, the first being
\* the tonic and the i-th being tonic + template[i] mod 12 in template
\* order; for a root that is none of the 12 pitch classes it returns the
\* empty list.
C16_ScaleNotes ==
    callResult # Pending =>
        LET root == callArgs[1].root
            template == SCALE_TEMPLATES[callArgs[1].mode]
            scale == callResult[1]
        IN  IF root \in SeqRange(PITCH_CLASSES)
            THEN /\ Len(scale) = 7
                 /\ Cardinality(SeqRange(scale)) = 7
                 /\ scale[1] = root
                 /\ \A i \in 1..7 :
                       /\ scale[i] \in SeqRange(PITCH_CLASSES)
                       /\ Semitone(scale[i]) = (Semitone(root) + template[i]) % 12
            ELSE scale = <<>>

\* a scale that passes from B to C: A dorian
C16_Witness ==
    /\ callResult # Pending
    /\ callArgs[1].root = <<"A">>
    /\ callArgs[1].mode = "dorian"
    /\ <<"C">> \in SeqRange(callResult[1])

\* ---------------------------------------------------------------- C19
\* the place of a note name among the 12, C = 0
NoteNumber(note) == CHOOSE i \in 0..11 : NOTE_NAMES[i + 1] = note

\* C19: for every integer rounded MIDI number m, negative ones included,
\* the pitch class is m mod 12 taken non-negative and the octave is
\* floor(m / 12) - 1; a semitone up, the class advances by one step
\* cyclically and the octave grows by 1 exactly when the class wraps from
\* B to C.
C19_NoteOfMidi ==
    callResult # Pending =>
        LET m == callArgs[1].midi
            here == callResult[1][1]
            above == callResult[1][2]
        IN  /\ NoteNumber(here.note) = m - 12 * (m \div 12)
            /\ NoteNumber(here.note) \in 0..11
            /\ here.octave = (m \div 12) - 1
            /\ NoteNumber(above.note) = (NoteNumber(here.note) + 1) % 12
            /\ above.octave =
                   IF NoteNumber(here.note) = 11 /\ NoteNumber(above.note) = 0
                   THEN here.octave + 1 ELSE here.octave

\* a negative MIDI number whose class is B: the semitone above is a C one
\* octave higher
C19_Witness ==
    /\ callResult # Pending
    /\ callArgs[1].midi < 0
    /\ NoteNumber(callResult[1][1].note) = 11
    /\ callResult[1][2].octave = callResult[1][1].octave + 1

\* ---------------------------------------------------------------- C17
\* the total duration the analysed list gives a pitch class
ClassDuration(pc) ==
    LET an == AnalysedNotes
        dur == [ i \in 1..Len(an) |->
                   IF an[i].pitchClass = pc THEN an[i].duration ELSE 0 ]
    IN  SumOver(dur, 1..Len(an))

CMajorClasses ==
    { <<"C">>, <<"D">>, <<"E">>, <<"F">>, <<"G">>, <<"A">>, <<"B">> }

\* the list holds exactly the seven classes of C major, starts and ends on C
OnCMajorScale ==
    LET an == AnalysedNotes
    IN  /\ Len(an) = Len(inputNotes)
        /\ { an[i].pitchClass : i \in 1..Len(an) } = CMajorClasses
        /\ an[1].pitchClass = <<"C">>
        /\ an[Len(an)].pitchClass = <<"C">>

\* primary C major with a confidence of about 1.0, and no alternative other
\* than A minor
FindsCMajor ==
    /\ keyResult # Null
    /\ keyResult[1].primary.key = <<"C">>
    /\ keyResult[1].primary.mode = "major"
    /\ keyResult[1].primary.confidence >= 99
    /\ keyResult[1].alternative # Null
           => /\ keyResult[1].alternative[1].key = <<"A">>
              /\ keyResult[1].alternative[1].mode = "minor"

\* C17, as stated: for a list on the C major scale that gives C strictly
\* more total duration than any other class, the analysis returns primary C
\* major with a confidence of about 1.0, and any alternative is A minor.
C17_CMajorWhenLongest ==
    ( /\ keyResult # Pending
      /\ OnCMajorScale
      /\ \A pc \in CMajorClasses \ { <<"C">> } :
            ClassDuration(pc) < ClassDuration(<<"C">>) )
    => FindsCMajor

\* C has the weight that outscores every other tonic: with c the duration
\* of C and r that of the other six classes, 5 r <= 2 c + 5 seconds
TonicHeavilyWeighted ==
    5 * (AnalysedTotal - ClassDuration(<<"C">>))
        <= 2 * ClassDuration(<<"C">>) + 5000

\* C17, amended: for a list on the C major scale in which C is heavily
\* weighted (5 r <= 2 c + 5 s), the analysis returns primary C major with
\* a confidence of about 1.0, and any alternative is A minor.
C17_CMajorWhenHeavy ==
    ( /\ keyResult # Pending
      /\ OnCMajorScale
      /\ TonicHeavilyWeighted )
    => FindsCMajor

\* a scale with two long Cs and a long A, answered C major with A minor as
\* the alternative
C17_Witness ==
    /\ keyResult # Pending
    /\ OnCMajorScale
    /\ TonicHeavilyWeighted
    /\ ClassDuration(<<"A">>) > PassingDuration
    /\ FindsCMajor
    /\ keyResult[1].alternative # Null

\* ---------------------------------------------------------------- C18
AnalysedClasses == { AnalysedNotes[i].pitchClass : i \in 1..Len(AnalysedNotes) }

\* the list starts and ends on A and gives no class more duration than A
WeightedTowardA ==
    /\ Len(AnalysedNotes) >= 1
    /\ AnalysedNotes[1].pitchClass = <<"A">>
    /\ AnalysedNotes[Len(AnalysedNotes)].pitchClass = <<"A">>
    /\ \A pc \in AnalysedClasses : ClassDuration(pc) <= ClassDuration(<<"A">>)

PrimaryIs(key, mode) ==
    /\ keyResult # Null
    /\ keyResult[1].primary.key = key
    /\ keyResult[1].primary.mode = mode

\* C18: for a list weighted toward A the primary is A major when the only
\* other class is C#, A minor when the only other class is C, and when the
\* list holds A alone the result is not an unqualified A major or A minor:
\* it is flagged ambiguous or carries an alternative.
C18_ThirdDegreeEvidence ==
    (keyResult # Pending /\ WeightedTowardA)
    => /\ AnalysedClasses = { <<"A">>, <<"C", "#">> } => PrimaryIs(<<"A">>, "major")
       /\ AnalysedClasses = { <<"A">>, <<"C">> } => PrimaryIs(<<"A">>, "minor")
       /\ AnalysedClasses = { <<"A">> }
             => ~ /\ keyResult # Null
                  /\ keyResult[1].primary.key = <<"A">>
                  /\ ~keyResult[1].isAmbiguous
                  /\ keyResult[1].alternative = Null

\* ---------------------------------------------------------------- C20
\* C20: a frame whose buffer is empty or holds NaN samples, so that its RMS
\* is NaN, is treated by process() as silence: the pitch estimator is not
\* consulted, an open Stable note is finalized, the candidate and the
\* counter are cleared and no event is returned.
C20_AnomalousIsSilence ==
    [][ ( /\ lastOp' = "process"
          /\ lastFrame'[1] \in AnomalousFrames
          /\ onNoteComplete )
        => ( /\ ~detectPitchCalled'
             /\ IF Open THEN FinalizesOpenNote(now')
                        ELSE delivered' = delivered
             /\ LeavesIdle ) ]_vars

\* ------------------------------------------------ detector, frame by frame
\* the frame reached the stability logic: loud enough, a positive frequency
\* inside the range
MapsToNote(frame) ==
    /\ frame.rms >= RMS_THRESHOLD
    /\ frame.kind = "number" /\ frame.sign > 0
    /\ frame.cents >= FREQ_MIN_CENTS
    /\ frame.cents <= FREQ_MAX_CENTS

NameOf(frame) == frequencyToNote(frame.cents).noteName

\* the frame is loud and its frequency is positive but outside 80..1100 Hz
IsOutOfRange(frame) ==
    /\ frame.rms >= RMS_THRESHOLD
    /\ frame.kind = "number" /\ frame.sign > 0
    /\ frame.cents < FREQ_MIN_CENTS \/ frame.cents > FREQ_MAX_CENTS

\* C22: while a Stable note stays open, process() reports nothing more about
\* it. A call on a frame of the open note's name, or on a frame of another
\* name that is only the first or second of its run, returns null, invokes
\* no callback and keeps the open note and its start time.
C22_NoRepeatedEvent ==
    [][ ( /\ lastOp' = "process"
          /\ Open
          /\ MapsToNote(lastFrame'[1])
          /\ \/ NameOf(lastFrame'[1]) = currentNoteData[1].noteName
             \/ obsRun' < STABILITY_THRESHOLD )
        => ( /\ ret' = Null
             /\ delivered' = delivered
             /\ currentNoteData' = currentNoteData
             /\ currentNoteStartTime' = currentNoteStartTime ) ]_vars

\* the open note has resumed after frames of another name interrupted it
C22_Witness ==
    /\ lastOp = "process"
    /\ Open
    /\ obsName = currentNoteData[1].noteName
    /\ obsRun = 1
    /\ maxRun > STABILITY_THRESHOLD
    /\ now - currentNoteStartTime[1] >= 4 * FrameTicks
    /\ ret = Null

\* C23 as stated: process() returns a note-started event for N only if the
\* current frame and the two frames passed immediately before it all mapped
\* to N, with no silent, pitch-less or out-of-range frame in between.
C23_AdjacentFrames ==
    [][ ( lastOp' = "process" /\ ret' # Null )
        => ( /\ strictRun' = STABILITY_THRESHOLD
             /\ obsName' = ret'[1].noteName ) ]_vars

\* C23, amended: process() returns a note-started event for N only if the
\* current frame and the two frames before it that mapped to a note all
\* mapped to N, with no silent or pitch-less frame in between; out-of-range
\* frames in between are skipped.
C23_MatchingFrames ==
    [][ ( lastOp' = "process" /\ ret' # Null )
        => ( /\ obsRun' >= STABILITY_THRESHOLD
             /\ obsName' = ret'[1].noteName ) ]_vars

\* an event whose three matching frames had an out-of-range frame among them
C23_Witness ==
    /\ lastOp = "process"
    /\ ret # Null
    /\ obsRun = STABILITY_THRESHOLD
    /\ obsName = ret[1].noteName
    /\ strictRun < STABILITY_THRESHOLD

\* C24: a loud frame whose frequency is positive but outside 80..1100 Hz is
\* ignored: process() returns null, delivers nothing and leaves the
\* candidate, the counter, the last stable note, the open note and its start
\* time as they were.
C24_OutOfRangeIgnored ==
    [][ ( lastOp' = "process" /\ IsOutOfRange(lastFrame'[1]) )
        => ( /\ ret' = Null
             /\ delivered' = delivered
             /\ lastDetectedNote' = lastDetectedNote
             /\ consecutiveCount' = consecutiveCount
             /\ lastStableNote' = lastStableNote
             /\ currentNoteData' = currentNoteData
             /\ currentNoteStartTime' = currentNoteStartTime ) ]_vars

\* an out-of-range frame arrived while a note was open and another name was
\* being counted
C24_Witness ==
    /\ lastOp = "process"
    /\ IsOutOfRange(lastFrame[1])
    /\ Open
    /\ onNoteComplete
    /\ consecutiveCount = STABILITY_THRESHOLD - 1
    /\ lastDetectedNote # lastStableNote

\* the delivered notes lie one after another in time, and the open note, if
\* any, starts no earlier than the last of them ended
InOrder ==
    /\ \A i \in 1..Len(delivered) :
          /\ delivered[i].startTime <= delivered[i].endTime
          /\ i > 1 => delivered[i].startTime >= delivered[i - 1].endTime
    /\ ( Open /\ delivered # <<>> )
          => currentNoteStartTime[1] >= LastDelivered.endTime

\* the call replaces the open note by a new stable one
ReplacesOpenNote ==
    /\ lastOp' = "process"
    /\ Open
    /\ ret' # Null

\* C26: the delivered notes form an append-only sequence of intervals that
\* do not overlap: each starts no later than it ends and no earlier than the
\* one before it ended. When a new stable note replaces an open one, the old
\* note is delivered (if it lasted 80 ms) with an end time read before the
\* new note's start time.
C26_NonOverlapping ==
    [][ /\ Len(delivered') >= Len(delivered)
        /\ SubSeq(delivered', 1, Len(delivered)) = delivered
        /\ InOrder'
        /\ ReplacesOpenNote =>
              /\ Len(reads') = IF onNoteComplete THEN 2 ELSE 1
              /\ currentNoteStartTime' = Some(reads'[Len(reads')])
              /\ onNoteComplete => FinalizesOpenNote(reads'[1]) ]_vars

\* a new stable note has replaced an open one that was delivered, and the
\* clock moved between the two reads
C26_Witness ==
    /\ lastOp = "process"
    /\ ret # Null
    /\ Open
    /\ delivered # <<>>
    /\ LastDelivered.endTime = reads[1]
    /\ currentNoteStartTime[1] > LastDelivered.endTime
    /\ LastDelivered.noteName # currentNoteData[1].noteName

\* C27: the open note's data is null exactly when its start time is null; an
\* open note bears the name in lastStableNote; the consecutive counter is 0
\* exactly when there is no candidate.
C27_StateConsistent ==
    /\ (currentNoteData = Null) <=> (currentNoteStartTime = Null)
    /\ Open => currentNoteData[1].noteName = lastStableNote
    /\ (consecutiveCount = 0) <=> (lastDetectedNote = Null)

\* a note is open while another name is being counted
C27_Witness ==
    /\ Open
    /\ currentNoteStartTime # Null
    /\ lastDetectedNote # Null
    /\ lastDetectedNote # lastStableNote
    /\ consecutiveCount = STABILITY_THRESHOLD - 1

\* ------------------------------------------------- key scorer, its exits
\* the duration of the notes of the input whose name names a pitch class
RecognisedDuration ==
    LET idx == { i \in 1..Len(inputNotes) :
                   NamesAPitchClass(inputNotes[i].noteName) }
        dur == [ i \in idx |-> inputNotes[i].durationMs ]
    IN  SumOver(dur, idx)

\* every note of the input has a recognisable name and a positive duration
AllRecognisedAndPositive ==
    \A i \in 1..Len(inputNotes) :
        /\ NamesAPitchClass(inputNotes[i].noteName)
        /\ inputNotes[i].durationMs > 0

\* C28: for a non-empty note list whose notes all have a recognisable name
\* and a positive duration the best of the 24 hypotheses scores above 0 and
\* analyzeKeyWithDuration returns a result; when some name is recognised,
\* it returns no result only if the recognised notes' total duration is not
\* positive.
C28_ResultForPositiveNotes ==
    keyResult # Pending =>
        /\ ( inputNotes # <<>> /\ AllRecognisedAndPositive )
              => ( /\ Len(keyScores) = 24
                   /\ keyScores[1].score.num > 0
                   /\ keyResult # Null )
        /\ ( keyResult = Null /\ ~NoNameRecognised )
              => RecognisedDuration <= 0

\* a result for two recognisable notes of positive duration, some hypotheses
\* scoring below 0
C28_Witness ==
    /\ HasResult
    /\ Len(inputNotes) >= 2
    /\ AllRecognisedAndPositive
    /\ keyScores[1].score.num > 0
    /\ keyScores[24].score.num < 0

\* ----------------------------------------- normalizeToPitchClass, on its own
\* The names given to it: the noteName frequencyToNote builds for a MIDI
\* number, and flat spellings, first letter in either case, bare or followed
\* by an octave.
FlatLetters == { "D", "E", "F", "G", "A", "B", "C", "d", "e", "f", "g", "a", "b", "c" }
OctaveSuffixes == { <<>>, <<"4">>, <<"-", "1">>, <<"1", "0">> }

DetectedNames ==
    { [ kind |-> "detected", midi |-> m,
        noteName |-> frequencyToNote(100 * m).noteName ] :
          m \in (-MidiBelowZero)..MidiAboveZero }

FlatNames ==
    { [ kind |-> "flat", letter |-> l,
        noteName |-> << l, "b" >> \o o ] :
          l \in FlatLetters, o \in OctaveSuffixes }

InitNormalize ==
    /\ DetectorInit
    /\ HookInit
    /\ inputNotes = <<>>
    /\ keyResult = Pending
    /\ keyScores = <<>>
    /\ callArgs \in { Some(a) : a \in DetectedNames \cup FlatNames }
    /\ callResult = Pending

NormalizeToPitchClass ==
    /\ callResult = Pending
    /\ callResult' = Some(normalizeToPitchClass(callArgs[1].noteName))
    /\ UNCHANGED callArgs
    /\ UNCHANGED nonCallVars

NextNormalize == NormalizeToPitchClass

SpecNormalize == InitNormalize /\ [][NextNormalize]_vars

\* the pitch class i semitones above C, for any integer i above -24
ClassOfSemitone(i) == PITCH_CLASSES[((i + 24) % 12) + 1]

\* C29: normalizeToPitchClass gives a name built by the detector (sharp
\* pitch class and octave number, negative octaves included) the pitch class
\* of its MIDI number, and gives a flat spelling the sharp class one semitone
\* below its letter.
C29_NormalizesDetectedNames ==
    callResult # Pending =>
        IF callArgs[1].kind = "detected"
        THEN callResult[1] = Some(ClassOfSemitone(callArgs[1].midi))
        ELSE callResult[1] =
                Some(ClassOfSemitone(
                        Semitone(<< ToUpperCase(callArgs[1].letter) >>) - 1))

\* the name of a note in a negative octave has been normalized
C29_Witness ==
    /\ callResult # Pending
    /\ callArgs[1].kind = "detected"
    /\ callArgs[1].midi < 0
    /\ callArgs[1].noteName[Len(callArgs[1].noteName) - 1] = "-"
    /\ callResult[1] = Some(<<"A", "#">>)

\* ------------------------------------------------------------ capture hook
\* useAudioCapture as the AudioCapture component drives it: START is shown
\* while isCapturing is false, STOP while it is true. A MediaStream, an
\* AudioContext, a detector and a frame loop are named by the startCapture()
\* call that made them; a ref holds such a name, or 0 for null.
\* sourceNodeRef and lowpassFilterRef are written and cleared together with
\* analyserNodeRef, which stands for the three.

\* createPitchDetector(): the closure's variables, and what a call produced
createPitchDetector ==
    [ lastDetectedNote |-> Null,
      consecutiveCount |-> 0,
      lastStableNote |-> Null,
      currentNoteStartTime |-> Null,
      currentNoteData |-> Null,
      onNoteComplete |-> FALSE,
      delivered |-> <<>>,
      reads |-> <<>>,
      ret |-> Null,
      detectPitchCalled |-> FALSE ]

\* the detector d at the start of a call of one of its functions
AtCall(d) ==
    [ d EXCEPT !.delivered = <<>>, !.reads = <<>>, !.ret = Null,
               !.detectPitchCalled = FALSE ]

\* the frames a tick may read from the analyser
HookFrames == { SilentFrame, FrameA }

\* the number of startCapture() calls made so far: the current session
Session == Cardinality({ i \in StartIds : startCalls[i] # "idle" })

\* the rest of the state, which the hook does not touch (it reads the clock)
nonHookVars ==
    << lastDetectedNote, consecutiveCount, lastStableNote,
       currentNoteStartTime, currentNoteData, onNoteComplete,
       delivered, ret, reads, lastOp, lastFrame, detectPitchCalled,
       events, obsName, obsRun, maxRun, strictRun,
       sessPure, sessName, sessFrames, sessConfirm,
       keyVars, callVars >>

\* the state startCapture() sets before it asks for the microphone
ResetState(prev) ==
    [ isCapturing |-> FALSE,
      error |-> Null,
      currentNote |-> Null,
      detectedNotes |-> <<>>,
      keyResult |-> Null,
      isAnalyzingAI |-> FALSE,
      aiAnalysisResult |-> Null,
      aiAnalysisError |-> Null,
      isRateLimited |-> prev.isRateLimited ]

\* handleNoteComplete for the notes a detector call delivered
handleNoteComplete(st, notes) ==
    [ st EXCEPT !.detectedNotes = @ \o notes ]

\* startCapture(), up to the await of getUserMedia
StartCapture ==
    \E i \in StartIds :
        /\ ~state.isCapturing
        /\ startCalls[i] = "idle"
        /\ \A j \in StartIds : j < i => startCalls[j] # "idle"
        /\ state' = ResetState(state)
        /\ collectedNotesRef' = <<>>
        /\ startCalls' = [ startCalls EXCEPT ![i] = "awaiting" ]
        /\ hookOp' = "startCapture"
        /\ UNCHANGED << streams, contexts, detectors, loops,
                        mediaStreamRef, audioContextRef, analyserNodeRef,
                        pitchDetectorRef, animationFrameRef,
                        silenceTimeoutRef, requests, analysed >>
        /\ UNCHANGED << now, nonHookVars >>

\* readAudioData(): starts the frame loop of call i
readAudioData(i) ==
    IF analyserNodeRef' = 0 \/ pitchDetectorRef' = 0
    THEN UNCHANGED << loops, animationFrameRef >>
    ELSE /\ loops' = [ loops EXCEPT ![i] = "scheduled" ]
         /\ animationFrameRef' = i

\* getUserMedia resolves: the rest of startCapture()'s try block
GrantMicrophone ==
    \E i \in StartIds :
        /\ startCalls[i] = "awaiting"
        /\ streams' = [ streams EXCEPT ![i] = "live" ]
        /\ mediaStreamRef' = i
        /\ contexts' = [ contexts EXCEPT ![i] = "running" ]
        /\ audioContextRef' = i
        /\ detectors' = [ detectors EXCEPT ![i] =
                 Some(setOnNoteComplete(createPitchDetector, TRUE)) ]
        /\ pitchDetectorRef' = i
        /\ analyserNodeRef' = i
        /\ state' = [ state EXCEPT !.isCapturing = TRUE, !.error = Null ]
        /\ readAudioData(i)
        /\ startCalls' = [ startCalls EXCEPT ![i] = "done" ]
        /\ hookOp' = "started"
        /\ UNCHANGED << silenceTimeoutRef, collectedNotesRef, requests,
                        analysed >>
        /\ UNCHANGED << now, nonHookVars >>

\* getUserMedia rejects: startCapture()'s catch block
DenyMicrophone ==
    \E i \in StartIds :
        /\ startCalls[i] = "awaiting"
        /\ state' = [ state EXCEPT !.isCapturing = FALSE,
                                   !.error = Some("microphone") ]
        /\ startCalls' = [ startCalls EXCEPT ![i] = "failed" ]
        /\ hookOp' = "startFailed"
        /\ UNCHANGED << streams, contexts, detectors, loops,
                        mediaStreamRef, audioContextRef, analyserNodeRef,
                        pitchDetectorRef, animationFrameRef,
                        silenceTimeoutRef, collectedNotesRef, requests,
                        analysed >>
        /\ UNCHANGED << now, nonHookVars >>

\* one requestAnimationFrame callback of the loop of call i: tick()
Tick ==
    \E i \in StartIds :
        /\ loops[i] \in { "scheduled", "orphaned" }
        /\ IF analyserNodeRef = 0
           THEN /\ loops' = [ loops EXCEPT ![i] = "ended" ]
                /\ hookOp' = "tickReturned"
                /\ UNCHANGED << detectors, animationFrameRef,
                                silenceTimeoutRef, collectedNotesRef,
                                state, now >>
           ELSE \E frame \in HookFrames :
                LET t == now + FrameTicks
                    d == process(AtCall(detectors[i][1]), frame, << t, t >>)
                IN  /\ ClockOk(t)
                    /\ now' = t
                    /\ detectors' = [ detectors EXCEPT ![i] = Some(AtCall(d)) ]
                    /\ collectedNotesRef' = collectedNotesRef \o d.delivered
                    /\ state' = [ handleNoteComplete(state, d.delivered)
                                    EXCEPT !.currentNote =
                                        IF d.ret # Null THEN d.ret ELSE @ ]
                    /\ silenceTimeoutRef' =
                           IF d.ret # Null THEN "none"
                           ELSE IF d.delivered # <<>> THEN "pending"
                           ELSE silenceTimeoutRef
                    /\ animationFrameRef' = i
                    /\ loops' = loops
                    /\ hookOp' = "tick"
        /\ UNCHANGED << startCalls, streams, contexts,
                        mediaStreamRef, audioContextRef, analyserNodeRef,
                        pitchDetectorRef, requests, analysed >>
        /\ UNCHANGED nonHookVars

\* cancelAnimationFrame(animationFrameRef.current) cancels the callback that
\* was scheduled last. A loop whose callback is still scheduled after it is
\* marked "orphaned": no ref leads to it any more.
CancelFrame ==
    [ i \in StartIds |->
        IF loops[i] = "scheduled"
        THEN IF animationFrameRef = i THEN "cancelled" ELSE "orphaned"
        ELSE loops[i] ]

\* analyzeCollectedNotes(): Some(result) when it sets keyResult, else Null
analyzeCollectedNotes(notes) ==
    IF Len(notes) = 0 THEN Null ELSE analyzeKeyWithDuration(notes)

\* stopCapture()
StopCapture ==
    \E dt \in { 0, FrameTicks } :
        LET t == now + dt
            d == IF pitchDetectorRef # 0
                 THEN stopDetector(AtCall(detectors[pitchDetectorRef][1]),
                                   << t, t >>)
                 ELSE createPitchDetector
            notes == collectedNotesRef \o d.delivered
            result == analyzeCollectedNotes(notes)
            flushed == handleNoteComplete(state, d.delivered)
        IN  /\ state.isCapturing
            /\ ClockOk(t)
            /\ now' = t
            /\ loops' = CancelFrame
            /\ animationFrameRef' = 0
            /\ silenceTimeoutRef' = IF d.delivered # <<>> THEN "pending"
                                                           ELSE "none"
            /\ detectors' = IF pitchDetectorRef # 0
                            THEN [ detectors EXCEPT ![pitchDetectorRef] =
                                       Some(AtCall(d)) ]
                            ELSE detectors
            /\ pitchDetectorRef' = 0
            /\ analyserNodeRef' = 0
            /\ contexts' = IF audioContextRef # 0
                           THEN [ contexts EXCEPT ![audioContextRef] = "closed" ]
                           ELSE contexts
            /\ audioContextRef' = 0
            /\ streams' = IF mediaStreamRef # 0
                          THEN [ streams EXCEPT ![mediaStreamRef] = "stopped" ]
                          ELSE streams
            /\ mediaStreamRef' = 0
            /\ collectedNotesRef' = notes
            /\ analysed' = IF Len(notes) = 0 THEN Null ELSE Some(notes)
            /\ state' = [ flushed EXCEPT
                            !.keyResult = IF result # Null THEN result ELSE @,
                            !.isCapturing = FALSE,
                            !.currentNote = Null ]
            /\ hookOp' = "stopCapture"
            /\ UNCHANGED << startCalls, requests >>
            /\ UNCHANGED nonHookVars

\* the timer handleNoteComplete set fires, SILENCE_CLEAR_DELAY_MS later
SilenceTimeout ==
    /\ silenceTimeoutRef = "pending"
    /\ silenceTimeoutRef' = "fired"
    /\ state' = [ state EXCEPT !.currentNote = Null ]
    /\ hookOp' = "silenceTimeout"
    /\ UNCHANGED << startCalls, streams, contexts, detectors, loops,
                    mediaStreamRef, audioContextRef, analyserNodeRef,
                    pitchDetectorRef, animationFrameRef,
                    collectedNotesRef, requests, analysed >>
    /\ UNCHANGED << now, nonHookVars >>

\* analyzeWithAI(), up to the await of analyzeKeyWithAI; the component shows
\* its button when a key result and notes are there and no analysis runs
AnalyzeWithAI ==
    /\ ~state.isCapturing
    /\ state.keyResult # Null
    /\ state.detectedNotes # <<>>
    /\ ~state.isAnalyzingAI
    /\ Len(requests) < MaxRequests
    /\ IF Len(state.detectedNotes) = 0
       THEN /\ state' = [ state EXCEPT !.aiAnalysisError = Some("no notes") ]
            /\ requests' = requests
       ELSE /\ state' = [ state EXCEPT !.isAnalyzingAI = TRUE,
                                       !.aiAnalysisError = Null ]
            /\ requests' = Append(requests,
                               [ notes |-> state.detectedNotes,
                                 session |-> Session,
                                 status |-> "inFlight" ])
    /\ hookOp' = "analyzeWithAI"
    /\ UNCHANGED << startCalls, streams, contexts, detectors, loops,
                    mediaStreamRef, audioContextRef, analyserNodeRef,
                    pitchDetectorRef, animationFrameRef, silenceTimeoutRef,
                    collectedNotesRef, analysed >>
    /\ UNCHANGED << now, nonHookVars >>

\* analyzeKeyWithAI settles: the rest of analyzeWithAI(). The service
\* answers, fails, or refuses with a RateLimitError.
AIResponds ==
    \E k \in 1..Len(requests), outcome \in { "result", "error", "rateLimit" } :
        /\ requests[k].status = "inFlight"
        /\ requests' = [ requests EXCEPT ![k].status = "settled" ]
        /\ state' =
              IF outcome = "result"
              THEN [ state EXCEPT !.isAnalyzingAI = FALSE,
                                  !.aiAnalysisResult = Some([ request |-> k ]) ]
              ELSE [ state EXCEPT !.isAnalyzingAI = FALSE,
                                  !.aiAnalysisError = Some(outcome),
                                  !.isRateLimited =
                                      IF outcome = "rateLimit" THEN TRUE ELSE @ ]
        /\ hookOp' = "aiResponded"
        /\ UNCHANGED << startCalls, streams, contexts, detectors, loops,
                        mediaStreamRef, audioContextRef, analyserNodeRef,
                        pitchDetectorRef, animationFrameRef, silenceTimeoutRef,
                        collectedNotesRef, analysed >>
        /\ UNCHANGED << now, nonHookVars >>

NextHook ==
    \/ StartCapture
    \/ GrantMicrophone
    \/ DenyMicrophone
    \/ Tick
    \/ StopCapture
    \/ SilenceTimeout
    \/ AnalyzeWithAI
    \/ AIResponds

SpecHook == Init /\ [][NextHook]_vars

\* --------------------------------------------------- capture hook, claims
\* the detector pitchDetectorRef leads to
RefDetector == detectors[pitchDetectorRef][1]

\* C21: when stopCapture() returns, every MediaStream obtained by a
\* startCapture() call that ran to its end has had its tracks stopped and
\* every AudioContext such a call created has been closed, and afterwards no
\* tick of a frame loop that was started before the stop calls process().
C21_StopReleasesAll ==
    [][ /\ hookOp' = "stopCapture" =>
              \A i \in StartIds :
                  startCalls[i] = "done" =>
                      /\ streams'[i] = "stopped"
                      /\ contexts'[i] = "closed"
        /\ hookOp' = "tick" => loops'[animationFrameRef'] # "orphaned" ]_vars

\* C25: stopCapture() flushes the detector before the key analysis, so a note
\* that is open at the stop and has lasted 80 ms is the last element of the
\* list given to analyzeKeyWithDuration; keyResult is set only by
\* stopCapture(), and it is null whenever a capture is active.
C25_FlushBeforeAnalysis ==
    [][ /\ ( /\ hookOp' = "stopCapture"
             /\ pitchDetectorRef # 0
             /\ RefDetector.currentNoteData # Null
             /\ now' - RefDetector.currentNoteStartTime[1] >= MinTicks )
           => ( /\ analysed' # Null
                /\ IsNoteOf(analysed'[1][Len(analysed'[1])],
                            RefDetector.currentNoteData[1],
                            RefDetector.currentNoteStartTime[1], now') )
        /\ ( state'.keyResult # state.keyResult /\ state'.keyResult # Null )
           => hookOp' = "stopCapture"
        /\ state'.isCapturing => state'.keyResult = Null ]_vars

\* C30: a non-null aiAnalysisResult is the answer to a request issued in the
\* current session, and isAnalyzingAI is true only while a request issued
\* in the current session for the current note list is in flight.
C30_AIResultOfCurrentSession ==
    /\ state.aiAnalysisResult # Null =>
          requests[state.aiAnalysisResult[1].request].session = Session
    /\ state.isAnalyzingAI =>
          \E k \in 1..Len(requests) :
              /\ requests[k].status = "inFlight"
              /\ requests[k].session = Session
              /\ requests[k].notes = state.detectedNotes

====
